---------------------------- MODULE Spec2Model ----------------------------
(***************************************************************************)
(* Office Bridge backend: the role/permission table, the project-          *)
(* membership checks and the project, task and entity routes that use      *)
(* them (backend/app/core/permissions.py, core/security.py,                *)
(* api/routes/projects.py, api/routes/tasks.py, api/routes/entities.py).   *)
(*                                                                         *)
(* A request is handled in one step: the dependency chain                  *)
(* (get_current_user, require_permission), the handler body and its        *)
(* commit.  The response of the last request is kept in `response` until   *)
(* it has been sent.                                                       *)
(***************************************************************************)
EXTENDS Integers, Sequences, FiniteSets, TLC

\* ------------------------------------------------------------------------
\* Bounds of the model
\* ------------------------------------------------------------------------

\* user ids 1..MaxUsers exist in the users table
MaxUsers == 2
\* project ids are 1..MaxProjects
MaxProjects == 2
\* task ids are 1..MaxTasks
MaxTasks == 1
\* RFI ids are 1..MaxRfis
MaxRfis == 2
\* daily report ids are 1..MaxReports
MaxReports == 1
\* a run makes at most MaxCommits commits that change a table
MaxCommits == 3
\* permission lists passed to has_any_permission, has_all_permissions and
\* require_permission have 0..MaxLen elements
MaxLen == 2
\* at most MaxRequests handlers are suspended at an await at a time
MaxRequests == 2

\* ------------------------------------------------------------------------
\* core/permissions.py: permission definitions and role mappings
\* ------------------------------------------------------------------------

\* class Permission: every member, as its (resource, action) pair; the enum
\* value is the string "<resource>:<action>".
P(resource, action) == [resource |-> resource, action |-> action]

Permission ==
  {
    P("project", "view"), P("project", "create"), P("project", "update"),
    P("project", "delete"), P("project", "manage_members"), P("task", "view"),
    P("task", "create"), P("task", "assign"), P("task", "update"),
    P("task", "delete"), P("task", "acknowledge"), P("task", "complete"),
    P("daily_report", "view"), P("daily_report", "create"), P("daily_report", "update"),
    P("daily_report", "delete"), P("photo", "view"), P("photo", "create"),
    P("photo", "update"), P("photo", "delete"), P("document", "view"),
    P("document", "create"), P("document", "update"), P("document", "delete"),
    P("document", "manage_revisions"), P("rfi", "view"), P("rfi", "create"),
    P("rfi", "update"), P("rfi", "answer"), P("rfi", "delete"),
    P("change", "view"), P("change", "create"), P("change", "price"),
    P("change", "approve"), P("change", "delete"), P("punch", "view"),
    P("punch", "create"), P("punch", "update"), P("punch", "verify"),
    P("punch", "delete"), P("delivery", "view"), P("delivery", "create"),
    P("delivery", "update"), P("delivery", "confirm"), P("delivery", "delete"),
    P("constraint", "view"), P("constraint", "create"), P("constraint", "update"),
    P("constraint", "resolve"), P("constraint", "delete"), P("decision", "view"),
    P("decision", "create"), P("timecard", "view_own"), P("timecard", "view_all"),
    P("timecard", "create"), P("timecard", "update_own"), P("timecard", "approve"),
    P("timecard", "delete"), P("cost_code", "view"), P("cost_code", "create"),
    P("cost_code", "update"), P("cost_code", "delete"), P("service", "view"),
    P("service", "create"), P("service", "assign"), P("service", "update"),
    P("service", "complete"), P("service", "delete"), P("admin", "view_all_projects"),
    P("admin", "manage_users"), P("admin", "system_settings")
  }

\* p.value.startswith("admin:")
IsAdminPermission(p) == p.resource = "admin"

FULL_ACCESS_PERMISSIONS == {p \in Permission : ~IsAdminPermission(p)}

\* ADMIN_PERMISSIONS built with the filter of FULL_ACCESS_PERMISSIONS
ADMIN_PERMISSIONS_FullAccessOnly == FULL_ACCESS_PERMISSIONS

\* ADMIN_PERMISSIONS with the filter of FULL_ACCESS_PERMISSIONS inverted
ADMIN_PERMISSIONS_AdminOnly == {p \in Permission : IsAdminPermission(p)}

ADMIN_PERMISSIONS == {p \in Permission : TRUE}

ROLE_PERMISSIONS ==
  [
    admin |-> ADMIN_PERMISSIONS,
    project_manager |-> FULL_ACCESS_PERMISSIONS,
    superintendent |-> FULL_ACCESS_PERMISSIONS,
    foreman |->
      {
        P("project", "view"), P("task", "view"), P("task", "create"),
        P("task", "assign"), P("task", "update"), P("task", "acknowledge"),
        P("task", "complete"), P("daily_report", "view"), P("daily_report", "create"),
        P("daily_report", "update"), P("photo", "view"), P("photo", "create"),
        P("photo", "update"), P("document", "view"), P("rfi", "view"),
        P("rfi", "create"), P("rfi", "update"), P("change", "view"),
        P("change", "create"), P("punch", "view"), P("punch", "create"),
        P("punch", "update"), P("delivery", "view"), P("delivery", "confirm"),
        P("constraint", "view"), P("constraint", "create"), P("constraint", "update"),
        P("decision", "view"), P("decision", "create"), P("timecard", "view_own"),
        P("timecard", "view_all"), P("timecard", "create"), P("timecard", "update_own"),
        P("cost_code", "view"), P("service", "view")
      },
    project_engineer |->
      {
        P("project", "view"), P("task", "view"), P("task", "create"),
        P("task", "assign"), P("task", "update"), P("task", "acknowledge"),
        P("task", "complete"), P("daily_report", "view"), P("photo", "view"),
        P("photo", "create"), P("photo", "update"), P("document", "view"),
        P("document", "create"), P("document", "update"), P("document", "manage_revisions"),
        P("rfi", "view"), P("rfi", "create"), P("rfi", "update"),
        P("rfi", "answer"), P("change", "view"), P("change", "create"),
        P("change", "price"), P("punch", "view"), P("punch", "create"),
        P("punch", "update"), P("delivery", "view"), P("constraint", "view"),
        P("constraint", "create"), P("constraint", "update"), P("constraint", "resolve"),
        P("decision", "view"), P("decision", "create"), P("timecard", "view_own"),
        P("timecard", "create"), P("timecard", "update_own"), P("cost_code", "view"),
        P("service", "view")
      },
    accounting |->
      {
        P("project", "view"), P("task", "view"), P("daily_report", "view"),
        P("photo", "view"), P("document", "view"), P("rfi", "view"),
        P("change", "view"), P("change", "price"), P("change", "approve"),
        P("punch", "view"), P("delivery", "view"), P("constraint", "view"),
        P("decision", "view"), P("timecard", "view_own"), P("timecard", "view_all"),
        P("timecard", "create"), P("timecard", "update_own"), P("timecard", "approve"),
        P("cost_code", "view"), P("cost_code", "create"), P("cost_code", "update"),
        P("service", "view")
      },
    logistics |->
      {
        P("project", "view"), P("task", "view"), P("task", "acknowledge"),
        P("task", "complete"), P("daily_report", "view"), P("photo", "view"),
        P("photo", "create"), P("document", "view"), P("rfi", "view"),
        P("change", "view"), P("punch", "view"), P("delivery", "view"),
        P("delivery", "create"), P("delivery", "update"), P("delivery", "confirm"),
        P("constraint", "view"), P("constraint", "create"), P("constraint", "update"),
        P("constraint", "resolve"), P("decision", "view"), P("timecard", "view_own"),
        P("timecard", "create"), P("timecard", "update_own"), P("cost_code", "view"),
        P("service", "view")
      },
    document_controller |->
      {
        P("project", "view"), P("task", "view"), P("task", "acknowledge"),
        P("task", "complete"), P("daily_report", "view"), P("photo", "view"),
        P("document", "view"), P("document", "create"), P("document", "update"),
        P("document", "delete"), P("document", "manage_revisions"), P("rfi", "view"),
        P("change", "view"), P("punch", "view"), P("delivery", "view"),
        P("constraint", "view"), P("decision", "view"), P("timecard", "view_own"),
        P("timecard", "create"), P("timecard", "update_own"), P("cost_code", "view"),
        P("service", "view")
      },
    service_dispatcher |->
      {
        P("project", "view"), P("task", "view"), P("daily_report", "view"),
        P("photo", "view"), P("photo", "create"), P("document", "view"),
        P("rfi", "view"), P("change", "view"), P("punch", "view"),
        P("delivery", "view"), P("constraint", "view"), P("decision", "view"),
        P("timecard", "view_own"), P("timecard", "create"), P("timecard", "update_own"),
        P("cost_code", "view"), P("service", "view"), P("service", "create"),
        P("service", "assign"), P("service", "update"), P("service", "complete")
      },
    field_worker |->
      {
        P("project", "view"), P("task", "view"), P("task", "acknowledge"),
        P("task", "complete"), P("daily_report", "view"), P("photo", "view"),
        P("photo", "create"), P("document", "view"), P("rfi", "view"),
        P("rfi", "create"), P("change", "view"), P("change", "create"),
        P("punch", "view"), P("punch", "create"), P("delivery", "view"),
        P("delivery", "confirm"), P("constraint", "view"), P("decision", "view"),
        P("timecard", "view_own"), P("timecard", "create"), P("timecard", "update_own"),
        P("cost_code", "view"), P("service", "view")
      }
  ]
\* role strings that are no key of ROLE_PERMISSIONS: "" is what
\* current_user.get("role", "") yields for a token without a role claim
UnknownRoles == {"", "developer"}

\* role_permissions: the module-level dict ROLE_PERMISSIONS as it stands in
\*   the running process (a dict of sets, both mutable); it holds the
\*   literal above when the module has been imported
VARIABLE role_permissions

RoleInputs == DOMAIN ROLE_PERMISSIONS \cup UnknownRoles

\* ------------------------------------------------------------------------
\* core/permissions.py: permission checking functions
\* ------------------------------------------------------------------------

\* get_user_permissions falling back to the least privileged role:
\* ROLE_PERMISSIONS.get(role, ROLE_PERMISSIONS["field_worker"])
get_user_permissions_DefaultFieldWorker(role) ==
  IF role \in DOMAIN role_permissions THEN role_permissions[role]
  ELSE role_permissions["field_worker"]

\* ROLE_PERMISSIONS.get(role, set())
get_user_permissions(role) ==
  IF role \in DOMAIN role_permissions THEN role_permissions[role] ELSE {}

has_permission(role, permission) == permission \in get_user_permissions(role)

\* has_any_permission that never looks at the first element of the list
has_any_permission_SkipFirst(role, permissions) ==
  LET user_perms == get_user_permissions(role)
  IN  \E i \in 2..Len(permissions) : permissions[i] \in user_perms

\* any(p in user_perms for p in permissions), permissions a list
has_any_permission(role, permissions) ==
  LET user_perms == get_user_permissions(role)
  IN  \E i \in 1..Len(permissions) : permissions[i] \in user_perms

\* all(p in user_perms for p in permissions), permissions a list
has_all_permissions(role, permissions) ==
  LET user_perms == get_user_permissions(role)
  IN  \A i \in 1..Len(permissions) : permissions[i] \in user_perms

\* is_admin answering for every manager-level role
is_admin_ManagerLevel(role) ==
  role \in {"admin", "project_manager", "superintendent"}

is_admin(role) == role = "admin"

is_manager_level(role) == role \in {"admin", "project_manager", "superintendent"}

\* the summary of a role's permissions: category -> its actions (the lists
\* of the source hold each action once, in the set's iteration order)
get_permission_summary(role) ==
  LET perms == get_user_permissions(role)
  IN  [category \in {perm.resource : perm \in perms} |->
         {perm.action : perm \in {q \in perms : q.resource = category}}]

\* ------------------------------------------------------------------------
\* State
\* ------------------------------------------------------------------------

\* db: the tables of the database the routes read and write
\*   db.users          ids of the rows of users
\*   db.user_role      users.id -> the role column of the row
\*   db.projects       projects.id -> [status]
\*   db.project_users  rows [project_id, user_id] of the association table
\*   db.tasks          tasks.id -> [project_id, assignee_id, created_by_id,
\*                                  status, acknowledged_at, completed_at]
\*   db.rfis           rfis.id -> [project_id, rfi_number, status,
\*                                routed_date, answered_date, submitted_by_id]
\*   db.daily_reports  daily_reports.id -> [project_id, submitted_by_id,
\*                                         report_date, notes]
\* commits: the number of commits that changed a table so far
\* response: the response of the request handled last, with the call that
\*   produced it; NoResponse while the server waits for a request
\* returned: the value a permission or membership function returned when it
\*   was called last, with its arguments; NoReturn when none is pending
\* inflight: the requests whose handler is suspended at an await, each with
\*   the local variables it resumes with; NoRequest for a free slot
VARIABLES db, commits, response, returned, inflight

vars == <<db, commits, response, returned, role_permissions, inflight>>

\* Optional[int] = None and the id 0 (both falsy in `if data.project_id:`)
NoneId == 0

\* Optional[Permission] = None
NonePermission == [resource |-> "None", action |-> "None"]

\* a datetime column that is NULL / that holds datetime.utcnow()
NoneTime == "None"
utcnow == "utcnow"

ProjectStatus == {"planning", "active", "on_hold", "completed", "closed"}

TaskStatus == {"pending", "acknowledged", "in_progress", "completed", "blocked"}

EmptyRow == [x \in {} |-> x]

\* the id the database gives the next inserted row (rowid: largest id + 1)
NextId(rows) ==
  IF DOMAIN rows = {} THEN 1
  ELSE (CHOOSE m \in DOMAIN rows : \A k \in DOMAIN rows : k <= m) + 1

Detail(msg, perms) == [msg |-> msg, perms |-> perms]

NoCall == [op |-> "none", cred |-> "none", role |-> "", sub |-> NoneId,
           target |-> NoneId, user_id |-> NoneId, perms |-> <<>>]

NoResponse == [call |-> NoCall, status |-> 0,
               detail |-> Detail("", <<>>), body |-> {}]

NoReturn == [fn |-> "none", role |-> "", user_id |-> NoneId,
             project_id |-> NoneId, perms |-> <<>>, value |-> FALSE]

\* the handlers uvicorn's event loop runs side by side: a handler gives
\* way to the others at each await and resumes with its local variables
Requests == 1..MaxRequests

NoRequest == [op |-> "none"]

\* ------------------------------------------------------------------------
\* core/security.py: authentication
\* ------------------------------------------------------------------------

CredentialKinds == {"valid", "missing", "malformed", "expired", "no_sub"}

\* Bearer credentials of a request: none at all, or a token that is
\* malformed / wrongly signed, expired, without "sub", or valid; `role` and
\* `sub` are the claims the token carries
Credential(kind, role, sub) == [kind |-> kind, role |-> role, sub |-> sub]

NonePayload == [sub |-> NoneId, role |-> "None"]

\* jwt.decode raises JWTError for a malformed, unverifiable or expired token
decode_token(credentials) ==
  IF credentials.kind \in {"malformed", "expired"} THEN NonePayload
  ELSE IF credentials.kind = "no_sub"
       THEN [sub |-> NoneId, role |-> credentials.role]
       ELSE [sub |-> credentials.sub, role |-> credentials.role]

\* jwt.encode of the claims and an expiry ACCESS_TOKEN_EXPIRE_MINUTES ahead:
\* a token decode_token accepts until then
create_access_token(data) == Credential("valid", data.role, data.sub)

credentials_exception ==
  [ok |-> FALSE, status |-> 401,
   detail |-> Detail("Could not validate credentials", <<>>),
   user |-> NonePayload]

Pass(user) ==
  [ok |-> TRUE, status |-> 200, detail |-> Detail("", <<>>), user |-> user]

Raise(status, msg, perms) ==
  [ok |-> FALSE, status |-> status, detail |-> Detail(msg, perms),
   user |-> NonePayload]

\* get_current_user without the check of the "sub" claim
get_current_user_NoSubAccepted(credentials) ==
  IF credentials.kind = "missing" THEN credentials_exception
  ELSE LET payload == decode_token(credentials)
       IN  IF payload = NonePayload THEN credentials_exception
           ELSE Pass(payload)

\* get_current_user loading the user row and answering with its current
\* role instead of the role claim
get_current_user_StoredRole(credentials) ==
  IF credentials.kind = "missing" THEN credentials_exception
  ELSE LET payload == decode_token(credentials)
       IN  IF payload = NonePayload THEN credentials_exception
           ELSE IF payload.sub = NoneId THEN credentials_exception
           ELSE IF payload.sub \in DOMAIN db.user_role
                THEN Pass([payload EXCEPT !.role = db.user_role[payload.sub]])
                ELSE Pass(payload)

get_current_user(credentials) ==
  IF credentials.kind = "missing" THEN credentials_exception
  ELSE LET payload == decode_token(credentials)
       IN  IF payload = NonePayload THEN credentials_exception
           ELSE IF payload.sub = NoneId THEN credentials_exception
           ELSE Pass(payload)

\* ------------------------------------------------------------------------
\* core/permissions.py: dependencies and project membership
\* ------------------------------------------------------------------------

\* require_permission asking for every permission instead of any
require_permission_All(permissions, credentials) ==
  LET current_user == get_current_user(credentials)
  IN  IF ~current_user.ok THEN current_user
      ELSE IF ~has_all_permissions(current_user.user.role, permissions)
           THEN Raise(403, "Permission denied. Required:", permissions)
           ELSE current_user

\* the dependency require_permission(*permissions) applied to a request
require_permission(permissions, credentials) ==
  LET current_user == get_current_user(credentials)
  IN  IF ~current_user.ok THEN current_user
      ELSE IF ~has_any_permission(current_user.user.role, permissions)
           THEN Raise(403, "Permission denied. Required:", permissions)
           ELSE current_user

\* require_roles(*roles): the role claim must be literally one of roles
require_roles(roles, credentials) ==
  LET current_user == get_current_user(credentials)
  IN  IF ~current_user.ok THEN current_user
      ELSE IF current_user.user.role \notin {roles[i] : i \in DOMAIN roles}
           THEN Raise(403, "Access denied. Required roles:", roles)
           ELSE current_user

\* check_project_access whose query lost its user_id condition
check_project_access_AnyMember(user_id, project_id, user_role, d) ==
  IF is_admin(user_role) THEN TRUE
  ELSE \E row \in d.project_users : row.project_id = project_id

check_project_access(user_id, project_id, user_role, d) ==
  IF is_admin(user_role) THEN TRUE
  ELSE \E row \in d.project_users :
          row.user_id = user_id /\ row.project_id = project_id

\* get_user_project_ids giving every role the admin branch
get_user_project_ids_AllProjects(user_id, user_role, d) == DOMAIN d.projects

\* get_user_project_ids comparing the wrong column with user_id
get_user_project_ids_SwappedColumns(user_id, user_role, d) ==
  IF is_admin(user_role) THEN DOMAIN d.projects
  ELSE {row.project_id :
          row \in {r \in d.project_users : r.project_id = user_id}}

get_user_project_ids(user_id, user_role, d) ==
  IF is_admin(user_role) THEN DOMAIN d.projects
  ELSE {row.project_id : row \in {r \in d.project_users : r.user_id = user_id}}

\* verify_project_access with its two checks in the other order
verify_project_access_ScopeFirst(project_id, current_user, d, required_permission) ==
  LET user_id == current_user.sub
      user_role == current_user.role
  IN  IF ~check_project_access(user_id, project_id, user_role, d)
      THEN Raise(403, "You don't have access to this project", <<>>)
      ELSE IF required_permission # NonePermission
              /\ ~has_permission(user_role, required_permission)
           THEN Raise(403, "Permission denied:", <<required_permission>>)
           ELSE Pass(current_user)

verify_project_access(project_id, current_user, d, required_permission) ==
  LET user_id == current_user.sub
      user_role == current_user.role
  IN  IF required_permission # NonePermission
         /\ ~has_permission(user_role, required_permission)
      THEN Raise(403, "Permission denied:", <<required_permission>>)
      ELSE IF ~check_project_access(user_id, project_id, user_role, d)
           THEN Raise(403, "You don't have access to this project", <<>>)
           ELSE Pass(current_user)

\* ------------------------------------------------------------------------
\* core/permissions.py: ownership checking
\* ------------------------------------------------------------------------

is_owner(user_id, resource_owner_id) == user_id = resource_owner_id

\* can_edit_resource that grants edit_own without asking who the owner is
can_edit_resource_IgnoreOwner(user_id, resource_owner_id, user_role, edit_permission, edit_own_permission) ==
  IF has_permission(user_role, edit_permission) THEN TRUE
  ELSE IF edit_own_permission # NonePermission
       THEN has_permission(user_role, edit_own_permission)
       ELSE FALSE

\* edit_own_permission: Optional[Permission] = None; every member of
\* Permission is a non-empty string and so truthy
can_edit_resource(user_id, resource_owner_id, user_role, edit_permission, edit_own_permission) ==
  IF has_permission(user_role, edit_permission) THEN TRUE
  ELSE IF edit_own_permission # NonePermission
          /\ is_owner(user_id, resource_owner_id)
       THEN has_permission(user_role, edit_own_permission)
       ELSE FALSE

\* ------------------------------------------------------------------------
\* core/permissions.py: role hierarchy
\* ------------------------------------------------------------------------

ROLE_HIERARCHY ==
  [admin |-> 100,
   project_manager |-> 90,
   superintendent |-> 85,
   foreman |-> 70,
   project_engineer |-> 70,
   accounting |-> 60,
   logistics |-> 50,
   document_controller |-> 50,
   service_dispatcher |-> 50,
   field_worker |-> 10]

\* ROLE_HIERARCHY.get(role, 0)
RoleLevel(role) ==
  IF role \in DOMAIN ROLE_HIERARCHY THEN ROLE_HIERARCHY[role] ELSE 0

\* can_manage_user comparing with >= instead of >
can_manage_user_AtLeast(manager_role, target_role) ==
  RoleLevel(manager_role) >= RoleLevel(target_role)

\* can_manage_user comparing with != instead of >
can_manage_user_NotEqual(manager_role, target_role) ==
  RoleLevel(manager_role) # RoleLevel(target_role)

can_manage_user(manager_role, target_role) ==
  LET manager_level == RoleLevel(manager_role)
      target_level == RoleLevel(target_role)
  IN  manager_level > target_level

\* ------------------------------------------------------------------------
\* Requests and responses
\* ------------------------------------------------------------------------

\* the call a response belongs to: the route, the credential sent with the
\* request (kind and claims), the project, task, RFI or report id it
\* targets, the user id it names (member, assignee) and the permissions
\* its guard requires
CallOn(op, credentials, target, user_id, perms) ==
  [op |-> op, cred |-> credentials.kind, role |-> credentials.role,
   sub |-> credentials.sub, target |-> target, user_id |-> user_id,
   perms |-> perms]

Call(op, credentials, target, perms) ==
  CallOn(op, credentials, target, NoneId, perms)

Response(call, status, detail, body) ==
  [call |-> call, status |-> status, detail |-> detail, body |-> body]

\* an HTTPException raised by a dependency or by the handler: the request
\* ends with its status and detail, nothing is committed
Abort(call, err) ==
  /\ response' = Response(call, err.status, err.detail, {})
  /\ UNCHANGED db

NotFound(msg) == Raise(404, msg, <<>>)

\* ------------------------------------------------------------------------
\* api/routes/auth.py
\* ------------------------------------------------------------------------

\* login: user_id is the row LoginRequest.email selects (none when not in
\* users), password_ok what verify_password answers
login(user_id, password_ok) ==
  IF user_id \notin db.users \/ ~password_ok
  THEN [ok |-> FALSE, status |-> 401,
        access_token |-> Credential("missing", "", NoneId)]
  ELSE [ok |-> TRUE, status |-> 200,
        access_token |->
          create_access_token([sub |-> user_id,
                               role |-> db.user_role[user_id]])]

\* ------------------------------------------------------------------------
\* api/routes/projects.py
\* ------------------------------------------------------------------------

\* .offset(skip).limit(limit).order_by(created_at.desc()) over rows whose
\* created_at grows with their id
Page(ids, skip, limit) ==
  {i \in ids : LET before == Cardinality({j \in ids : j > i})
               IN  before >= skip /\ before < skip + limit}

list_projects(credentials, status, skip, limit) ==
  LET perms == <<P("project", "view")>>
      call == Call("list_projects", credentials, NoneId, perms)
      guard == require_permission(perms, credentials)
  IN  /\ response = NoResponse
      /\ IF ~guard.ok THEN Abort(call, guard)
         ELSE LET user_id == guard.user.sub
                  user_role == guard.user.role
                  accessible_ids == get_user_project_ids(user_id, user_role, db)
                  scoped == IF ~is_admin(user_role)
                            THEN DOMAIN db.projects \cap accessible_ids
                            ELSE DOMAIN db.projects
                  rows == {i \in scoped :
                             status = "None" \/ db.projects[i].status = status}
              IN  /\ response' =
                       IF ~is_admin(user_role) /\ accessible_ids = {}
                       THEN Response(call, 200, Detail("", <<>>), {})
                       ELSE Response(call, 200, Detail("", <<>>),
                                     Page(rows, skip, limit))
                  /\ UNCHANGED db

\* create_project without lines 72-76: the project is committed and the
\* creator is not assigned to it
create_project_NoAutoAssign(credentials) ==
  LET perms == <<P("project", "create")>>
      project_id == NextId(db.projects)
      call == Call("create_project", credentials, project_id, perms)
      guard == require_permission(perms, credentials)
  IN  /\ response = NoResponse
      /\ project_id <= MaxProjects
      /\ IF ~guard.ok THEN Abort(call, guard)
         ELSE /\ db' = [db EXCEPT
                          !.projects = db.projects @@
                              (project_id :> [status |-> "planning"])]
              /\ response' = Response(call, 201, Detail("", <<>>),
                                      {project_id})

create_project(credentials) ==
  LET perms == <<P("project", "create")>>
      project_id == NextId(db.projects)
      call == Call("create_project", credentials, project_id, perms)
      guard == require_permission(perms, credentials)
  IN  /\ response = NoResponse
      /\ project_id <= MaxProjects
      /\ IF ~guard.ok THEN Abort(call, guard)
         ELSE LET user_id == guard.user.sub
              IN  /\ db' = [db EXCEPT
                        !.projects = db.projects @@
                            (project_id :> [status |-> "planning"]),
                        !.project_users = db.project_users \cup
                            {[project_id |-> project_id, user_id |-> user_id]}]
                  /\ response' = Response(call, 201, Detail("", <<>>),
                                          {project_id})

get_project(credentials, project_id) ==
  LET perms == <<P("project", "view")>>
      call == Call("get_project", credentials, project_id, perms)
      guard == require_permission(perms, credentials)
  IN  /\ response = NoResponse
      /\ IF ~guard.ok THEN Abort(call, guard)
         ELSE LET user_id == guard.user.sub
                  user_role == guard.user.role
              IN  IF project_id \notin DOMAIN db.projects
                  THEN Abort(call, NotFound("Project not found"))
                  ELSE IF ~is_admin(user_role)
                          /\ project_id \notin
                               get_user_project_ids(user_id, user_role, db)
                  THEN Abort(call, Raise(403,
                          "You don't have access to this project", <<>>))
                  ELSE /\ response' = Response(call, 200, Detail("", <<>>),
                                               {project_id})
                       /\ UNCHANGED db

update_project(credentials, project_id, status) ==
  LET perms == <<P("project", "update")>>
      call == Call("update_project", credentials, project_id, perms)
      guard == require_permission(perms, credentials)
  IN  /\ response = NoResponse
      /\ IF ~guard.ok THEN Abort(call, guard)
         ELSE LET user_id == guard.user.sub
                  user_role == guard.user.role
              IN  IF project_id \notin DOMAIN db.projects
                  THEN Abort(call, NotFound("Project not found"))
                  ELSE IF ~is_admin(user_role)
                          /\ project_id \notin
                               get_user_project_ids(user_id, user_role, db)
                  THEN Abort(call, Raise(403,
                          "You don't have access to this project", <<>>))
                  ELSE /\ db' = IF status = "None" THEN db
                                ELSE [db EXCEPT
                                        !.projects[project_id].status = status]
                       /\ response' = Response(call, 200, Detail("", <<>>),
                                               {project_id})

delete_project(credentials, project_id) ==
  LET perms == <<P("project", "delete")>>
      call == Call("delete_project", credentials, project_id, perms)
      guard == require_permission(perms, credentials)
  IN  /\ response = NoResponse
      /\ IF ~guard.ok THEN Abort(call, guard)
         ELSE IF project_id \notin DOMAIN db.projects
              THEN Abort(call, NotFound("Project not found"))
              ELSE /\ db' = [db EXCEPT
                               !.projects[project_id].status = "closed"]
                   /\ response' = Response(call, 204, Detail("", <<>>), {})

add_project_member(credentials, project_id, user_id) ==
  LET perms == <<P("project", "manage_members")>>
      call == CallOn("add_project_member", credentials, project_id, user_id,
                    perms)
      guard == require_permission(perms, credentials)
      row == [project_id |-> project_id, user_id |-> user_id]
  IN  /\ response = NoResponse
      /\ IF ~guard.ok THEN Abort(call, guard)
         ELSE IF project_id \notin DOMAIN db.projects
              THEN Abort(call, NotFound("Project not found"))
              ELSE IF user_id \notin db.users
              THEN Abort(call, NotFound("User not found"))
              ELSE IF row \in db.project_users
              THEN Abort(call, Raise(400,
                      "User already assigned to project", <<>>))
              ELSE /\ db' = [db EXCEPT
                               !.project_users = db.project_users \cup {row}]
                   /\ response' = Response(call, 201,
                         Detail("User added to project", <<>>), {})

remove_project_member(credentials, project_id, user_id) ==
  LET perms == <<P("project", "manage_members")>>
      call == CallOn("remove_project_member", credentials, project_id, user_id,
                    perms)
      guard == require_permission(perms, credentials)
      row == [project_id |-> project_id, user_id |-> user_id]
  IN  /\ response = NoResponse
      /\ IF ~guard.ok THEN Abort(call, guard)
         ELSE /\ db' = [db EXCEPT
                          !.project_users = db.project_users \ {row}]
              /\ response' = Response(call, 204, Detail("", <<>>), {})

list_project_members(credentials, project_id) ==
  LET perms == <<P("project", "view")>>
      call == Call("list_project_members", credentials, project_id, perms)
      guard == require_permission(perms, credentials)
  IN  /\ response = NoResponse
      /\ IF ~guard.ok THEN Abort(call, guard)
         ELSE LET user_id == guard.user.sub
                  user_role == guard.user.role
              IN  IF ~is_admin(user_role)
                     /\ project_id \notin
                          get_user_project_ids(user_id, user_role, db)
                  THEN Abort(call, Raise(403,
                          "You don't have access to this project", <<>>))
                  ELSE /\ response' = Response(call, 200, Detail("", <<>>),
                            {u \in db.users :
                               [project_id |-> project_id, user_id |-> u]
                                 \in db.project_users})
                       /\ UNCHANGED db

\* ------------------------------------------------------------------------
\* api/routes/tasks.py
\* ------------------------------------------------------------------------

list_tasks(credentials, project_id, assignee_id, status, my_tasks, skip, limit) ==
  LET perms == <<P("task", "view")>>
      call == Call("list_tasks", credentials, project_id, perms)
      guard == require_permission(perms, credentials)
  IN  /\ response = NoResponse
      /\ IF ~guard.ok THEN Abort(call, guard)
         ELSE LET user_id == guard.user.sub
                  access == IF project_id # NoneId
                            THEN verify_project_access(project_id, guard.user,
                                     db, P("task", "view"))
                            ELSE guard
                  rows == {t \in DOMAIN db.tasks :
                     /\ project_id # NoneId =>
                          db.tasks[t].project_id = project_id
                     /\ IF my_tasks THEN db.tasks[t].assignee_id = user_id
                        ELSE assignee_id # NoneId =>
                               db.tasks[t].assignee_id = assignee_id
                     /\ status # "None" => db.tasks[t].status = status}
              IN  IF ~access.ok THEN Abort(call, access)
                  ELSE /\ response' = Response(call, 200, Detail("", <<>>),
                                               Page(rows, skip, limit))
                       /\ UNCHANGED db

create_task(credentials, project_id, assignee_id) ==
  LET perms == <<P("task", "create")>>
      call == CallOn("create_task", credentials, project_id, assignee_id,
                    perms)
      guard == require_permission(perms, credentials)
      task_id == NextId(db.tasks)
  IN  /\ response = NoResponse
      /\ task_id <= MaxTasks
      /\ IF ~guard.ok THEN Abort(call, guard)
         ELSE LET user_id == guard.user.sub
                  access == IF project_id # NoneId
                            THEN verify_project_access(project_id, guard.user,
                                     db, P("task", "create"))
                            ELSE guard
              IN  IF ~access.ok THEN Abort(call, access)
                  ELSE IF assignee_id \notin db.users
                  THEN Abort(call, Raise(400, "Assignee not found", <<>>))
                  ELSE /\ db' = [db EXCEPT !.tasks = db.tasks @@
                            (task_id :>
                               [project_id |-> project_id,
                                assignee_id |-> assignee_id,
                                created_by_id |-> user_id,
                                status |-> "pending",
                                acknowledged_at |-> NoneTime,
                                completed_at |-> NoneTime])]
                       /\ response' = Response(call, 201, Detail("", <<>>),
                                               {task_id})

get_task(credentials, task_id) ==
  LET perms == <<P("task", "view")>>
      call == Call("get_task", credentials, task_id, perms)
      guard == require_permission(perms, credentials)
  IN  /\ response = NoResponse
      /\ IF ~guard.ok THEN Abort(call, guard)
         ELSE IF task_id \notin DOMAIN db.tasks
              THEN Abort(call, NotFound("Task not found"))
              ELSE LET task == db.tasks[task_id]
                       access == IF task.project_id # NoneId
                                 THEN verify_project_access(task.project_id,
                                          guard.user, db, P("task", "view"))
                                 ELSE guard
                   IN  IF ~access.ok THEN Abort(call, access)
                       ELSE /\ response' = Response(call, 200,
                                   Detail("", <<>>), {task_id})
                            /\ UNCHANGED db

\* update_task applying and committing the update before its can_edit check
update_task_CommitBeforeCheck(credentials, task_id, status) ==
  LET perms == <<P("task", "update")>>
      call == Call("update_task", credentials, task_id, perms)
      guard == require_permission(perms, credentials)
  IN  /\ response = NoResponse
      /\ IF ~guard.ok THEN Abort(call, guard)
         ELSE LET user_id == guard.user.sub
                  user_role == guard.user.role
              IN  IF task_id \notin DOMAIN db.tasks
                  THEN Abort(call, NotFound("Task not found"))
                  ELSE LET task == db.tasks[task_id]
                           can_edit == is_manager_level(user_role)
                                       \/ task.created_by_id = user_id
                           stamped ==
                             IF status = "completed"
                                /\ task.completed_at = NoneTime
                             THEN [task EXCEPT !.completed_at = utcnow]
                             ELSE task
                       IN  /\ db' = IF status = "None" THEN db
                                    ELSE [db EXCEPT !.tasks[task_id] =
                                            [stamped EXCEPT !.status = status]]
                           /\ response' =
                                IF ~can_edit
                                THEN Response(call, 403,
                                       Detail("You can only edit tasks you created",
                                              <<>>), {})
                                ELSE Response(call, 200, Detail("", <<>>),
                                              {task_id})

update_task(credentials, task_id, status) ==
  LET perms == <<P("task", "update")>>
      call == Call("update_task", credentials, task_id, perms)
      guard == require_permission(perms, credentials)
  IN  /\ response = NoResponse
      /\ IF ~guard.ok THEN Abort(call, guard)
         ELSE LET user_id == guard.user.sub
                  user_role == guard.user.role
              IN  IF task_id \notin DOMAIN db.tasks
                  THEN Abort(call, NotFound("Task not found"))
                  ELSE LET task == db.tasks[task_id]
                           can_edit == is_manager_level(user_role)
                                       \/ task.created_by_id = user_id
                           stamped ==
                             IF status = "completed"
                                /\ task.completed_at = NoneTime
                             THEN [task EXCEPT !.completed_at = utcnow]
                             ELSE task
                       IN  IF ~can_edit
                           THEN Abort(call, Raise(403,
                                  "You can only edit tasks you created", <<>>))
                           ELSE /\ db' = IF status = "None" THEN db
                                    ELSE [db EXCEPT !.tasks[task_id] =
                                            [stamped EXCEPT !.status = status]]
                                /\ response' = Response(call, 200,
                                       Detail("", <<>>), {task_id})

acknowledge_task(credentials, task_id, acknowledged) ==
  LET perms == <<P("task", "acknowledge")>>
      call == Call("acknowledge_task", credentials, task_id, perms)
      guard == require_permission(perms, credentials)
  IN  /\ response = NoResponse
      /\ IF ~guard.ok THEN Abort(call, guard)
         ELSE LET user_id == guard.user.sub
              IN  IF task_id \notin DOMAIN db.tasks
                  THEN Abort(call, NotFound("Task not found"))
                  ELSE IF db.tasks[task_id].assignee_id # user_id
                  THEN Abort(call, Raise(403,
                         "Only the assignee can acknowledge this task", <<>>))
                  ELSE /\ db' = IF acknowledged
                                THEN [db EXCEPT
                                        !.tasks[task_id].status = "acknowledged",
                                        !.tasks[task_id].acknowledged_at = utcnow]
                                ELSE db
                       /\ response' = Response(call, 200, Detail("", <<>>),
                                               {task_id})

complete_task(credentials, task_id) ==
  LET perms == <<P("task", "complete")>>
      call == Call("complete_task", credentials, task_id, perms)
      guard == require_permission(perms, credentials)
  IN  /\ response = NoResponse
      /\ IF ~guard.ok THEN Abort(call, guard)
         ELSE LET user_id == guard.user.sub
                  user_role == guard.user.role
              IN  IF task_id \notin DOMAIN db.tasks
                  THEN Abort(call, NotFound("Task not found"))
                  ELSE IF ~(is_manager_level(user_role)
                            \/ db.tasks[task_id].assignee_id = user_id)
                  THEN Abort(call, Raise(403,
                         "Only the assignee or a manager can complete this task",
                         <<>>))
                  ELSE /\ db' = [db EXCEPT
                                   !.tasks[task_id].status = "completed",
                                   !.tasks[task_id].completed_at = utcnow]
                       /\ response' = Response(call, 200, Detail("", <<>>),
                                               {task_id})

delete_task(credentials, task_id) ==
  LET perms == <<P("task", "delete")>>
      call == Call("delete_task", credentials, task_id, perms)
      guard == require_permission(perms, credentials)
  IN  /\ response = NoResponse
      /\ IF ~guard.ok THEN Abort(call, guard)
         ELSE IF task_id \notin DOMAIN db.tasks
              THEN Abort(call, NotFound("Task not found"))
              ELSE /\ db' = [db EXCEPT !.tasks =
                               [t \in DOMAIN db.tasks \ {task_id} |->
                                  db.tasks[t]]]
                   /\ response' = Response(call, 204, Detail("", <<>>), {})

\* ------------------------------------------------------------------------
\* api/routes/entities.py (RFI routes) and api/routes/daily_reports.py
\* ------------------------------------------------------------------------

RFIStatus == {"draft", "submitted", "routed", "answered", "closed"}

\* a Date column that is NULL / that holds date.today()
NoneDate == "None"
today == "today"

\* f"RFI-{n:04d}"
FormatRfiNumber(n) == [prefix |-> "RFI-", digits |-> n]

list_rfis(credentials, project_id, status, skip, limit) ==
  LET call == Call("list_rfis", credentials, project_id, <<>>)
      guard == get_current_user(credentials)
      rows == {r \in DOMAIN db.rfis :
                 /\ project_id # NoneId => db.rfis[r].project_id = project_id
                 /\ status # "None" => db.rfis[r].status = status}
  IN  /\ response = NoResponse
      /\ IF ~guard.ok THEN Abort(call, guard)
         ELSE /\ response' = Response(call, 200, Detail("", <<>>),
                                      Page(rows, skip, limit))
              /\ UNCHANGED db

create_rfi(credentials, project_id) ==
  LET call == Call("create_rfi", credentials, project_id, <<>>)
      guard == get_current_user(credentials)
      rfi_id == NextId(db.rfis)
      count == Cardinality({r \in DOMAIN db.rfis :
                              db.rfis[r].project_id = project_id})
  IN  /\ response = NoResponse
      /\ rfi_id <= MaxRfis
      /\ IF ~guard.ok THEN Abort(call, guard)
         ELSE /\ db' = [db EXCEPT !.rfis = db.rfis @@
                   (rfi_id :>
                      [project_id |-> project_id,
                       rfi_number |-> FormatRfiNumber(count + 1),
                       status |-> "draft",
                       routed_date |-> NoneDate,
                       answered_date |-> NoneDate,
                       submitted_by_id |-> guard.user.sub])]
              /\ response' = Response(call, 201, Detail("", <<>>), {rfi_id})

get_rfi(credentials, rfi_id) ==
  LET call == Call("get_rfi", credentials, rfi_id, <<>>)
      guard == get_current_user(credentials)
  IN  /\ response = NoResponse
      /\ IF ~guard.ok THEN Abort(call, guard)
         ELSE IF rfi_id \notin DOMAIN db.rfis
              THEN Abort(call, NotFound("RFI not found"))
              ELSE /\ response' = Response(call, 200, Detail("", <<>>),
                                           {rfi_id})
                   /\ UNCHANGED db

update_rfi(credentials, rfi_id, status) ==
  LET call == Call("update_rfi", credentials, rfi_id, <<>>)
      guard == get_current_user(credentials)
  IN  /\ response = NoResponse
      /\ IF ~guard.ok THEN Abort(call, guard)
         ELSE IF rfi_id \notin DOMAIN db.rfis
              THEN Abort(call, NotFound("RFI not found"))
              ELSE LET rfi == db.rfis[rfi_id]
                       routed ==
                         IF status = "routed" /\ rfi.routed_date = NoneDate
                         THEN [rfi EXCEPT !.routed_date = today] ELSE rfi
                       answered ==
                         IF status = "answered" /\ rfi.answered_date = NoneDate
                         THEN [routed EXCEPT !.answered_date = today]
                         ELSE routed
                   IN  /\ db' = IF status = "None" THEN db
                                ELSE [db EXCEPT !.rfis[rfi_id] =
                                        [answered EXCEPT !.status = status]]
                       /\ response' = Response(call, 200, Detail("", <<>>),
                                               {rfi_id})

create_daily_report(credentials, project_id, report_date) ==
  LET call == Call("create_daily_report", credentials, project_id, <<>>)
      guard == get_current_user(credentials)
      report_id == NextId(db.daily_reports)
  IN  /\ response = NoResponse
      /\ report_id <= MaxReports
      /\ IF ~guard.ok THEN Abort(call, guard)
         ELSE LET user_id == guard.user.sub
              IN  IF \E r \in DOMAIN db.daily_reports :
                        /\ db.daily_reports[r].project_id = project_id
                        /\ db.daily_reports[r].report_date = report_date
                        /\ db.daily_reports[r].submitted_by_id = user_id
                  THEN Abort(call, Raise(400,
                         "Daily report already exists for this date. Use PATCH to update.",
                         <<>>))
                  ELSE /\ db' = [db EXCEPT !.daily_reports =
                            db.daily_reports @@
                              (report_id :>
                                 [project_id |-> project_id,
                                  submitted_by_id |-> user_id,
                                  report_date |-> report_date,
                                  notes |-> "None"])]
                       /\ response' = Response(call, 201, Detail("", <<>>),
                                               {report_id})

get_daily_report(credentials, report_id) ==
  LET call == Call("get_daily_report", credentials, report_id, <<>>)
      guard == get_current_user(credentials)
  IN  /\ response = NoResponse
      /\ IF ~guard.ok THEN Abort(call, guard)
         ELSE IF report_id \notin DOMAIN db.daily_reports
              THEN Abort(call, NotFound("Daily report not found"))
              ELSE /\ response' = Response(call, 200, Detail("", <<>>),
                                           {report_id})
                   /\ UNCHANGED db

update_daily_report(credentials, report_id, notes) ==
  LET call == Call("update_daily_report", credentials, report_id, <<>>)
      guard == get_current_user(credentials)
  IN  /\ response = NoResponse
      /\ IF ~guard.ok THEN Abort(call, guard)
         ELSE IF report_id \notin DOMAIN db.daily_reports
              THEN Abort(call, NotFound("Daily report not found"))
              ELSE /\ db' = IF notes = "None" THEN db
                            ELSE [db EXCEPT
                                    !.daily_reports[report_id].notes = notes]
                   /\ response' = Response(call, 200, Detail("", <<>>),
                                           {report_id})

delete_daily_report(credentials, report_id) ==
  LET call == Call("delete_daily_report", credentials, report_id, <<>>)
      guard == get_current_user(credentials)
  IN  /\ response = NoResponse
      /\ IF ~guard.ok THEN Abort(call, guard)
         ELSE IF report_id \notin DOMAIN db.daily_reports
              THEN Abort(call, NotFound("Daily report not found"))
              ELSE /\ db' = [db EXCEPT !.daily_reports =
                               [r \in DOMAIN db.daily_reports \ {report_id} |->
                                  db.daily_reports[r]]]
                   /\ response' = Response(call, 204, Detail("", <<>>), {})

\* ------------------------------------------------------------------------
\* Inputs
\* ------------------------------------------------------------------------

SubInputs == 1..MaxUsers

\* ids of requests: every id a row can have and one that no row ever has
UserIdInputs == 1..(MaxUsers + 1)
ProjectIdInputs == 1..(MaxProjects + 1)
TaskIdInputs == 1..(MaxTasks + 1)
RfiIdInputs == 1..(MaxRfis + 1)
ReportIdInputs == 1..(MaxReports + 1)

\* valid tokens of every role for every user, and one credential of each
\* kind get_current_user rejects
CredentialInputs ==
  {Credential("valid", role, sub) : role \in RoleInputs, sub \in SubInputs}
    \cup {Credential("missing", "", NoneId),
          Credential("malformed", "admin", 1),
          Credential("expired", "admin", 1),
          Credential("no_sub", "admin", NoneId)}

\* ProjectUpdate.status / TaskUpdate.status / RFIUpdate.status of a PATCH
\* body: unset, or one of these values
ProjectStatusInputs == {"None", "active", "closed"}
TaskStatusInputs == {"None", "in_progress", "completed"}
RfiStatusInputs == {"None", "routed", "answered"}

\* skip: Query(0, ge=0) and limit: Query(50, ge=1, le=100)
SkipInputs == {0, 1}
LimitInputs == {50}

\* required_permission of verify_project_access: None, the permissions the
\* routes pass, and permissions only some roles or only admin hold
RequiredPermissionInputs ==
  {NonePermission, P("task", "view"), P("task", "create"),
   P("project", "delete"), P("admin", "manage_users")}

\* ------------------------------------------------------------------------
\* Actions
\* ------------------------------------------------------------------------

Init ==
  /\ db = [users |-> 1..MaxUsers,
           user_role |-> [u \in 1..MaxUsers |-> "field_worker"],
           projects |-> EmptyRow,
           project_users |-> {},
           tasks |-> EmptyRow,
           rfis |-> EmptyRow,
           daily_reports |-> EmptyRow]
  /\ commits = 0
  /\ response = NoResponse
  /\ returned = NoReturn
  /\ role_permissions = ROLE_PERMISSIONS
  /\ inflight = [r \in Requests |-> NoRequest]

\* the response has been sent (the value has been used): the server waits
\* for the next request
Finish ==
  /\ response # NoResponse \/ returned # NoReturn
  /\ response' = NoResponse
  /\ returned' = NoReturn
  /\ UNCHANGED <<db, commits, role_permissions, inflight>>

Idle == response = NoResponse /\ returned = NoReturn

\* await db.commit(): counted when the request changed a table
Commit ==
  /\ commits' = IF db' # db THEN commits + 1 ELSE commits
  /\ commits' <= MaxCommits

ListProjects ==
  /\ Idle
  /\ \E credentials \in CredentialInputs,
        status \in {"None", "closed"},
        skip \in SkipInputs, limit \in LimitInputs :
       list_projects(credentials, status, skip, limit)
  /\ Commit
  /\ UNCHANGED <<returned, role_permissions, inflight>>

CreateProject ==
  /\ Idle
  /\ \E credentials \in CredentialInputs : create_project(credentials)
  /\ Commit
  /\ UNCHANGED <<returned, role_permissions, inflight>>

GetProject ==
  /\ Idle
  /\ \E credentials \in CredentialInputs, project_id \in ProjectIdInputs :
       get_project(credentials, project_id)
  /\ Commit
  /\ UNCHANGED <<returned, role_permissions, inflight>>

UpdateProject ==
  /\ Idle
  /\ \E credentials \in CredentialInputs, project_id \in ProjectIdInputs,
        status \in ProjectStatusInputs :
       update_project(credentials, project_id, status)
  /\ Commit
  /\ UNCHANGED <<returned, role_permissions, inflight>>

DeleteProject ==
  /\ Idle
  /\ \E credentials \in CredentialInputs, project_id \in ProjectIdInputs :
       delete_project(credentials, project_id)
  /\ Commit
  /\ UNCHANGED <<returned, role_permissions, inflight>>

AddProjectMember ==
  /\ Idle
  /\ \E credentials \in CredentialInputs, project_id \in ProjectIdInputs,
        user_id \in UserIdInputs :
       add_project_member(credentials, project_id, user_id)
  /\ Commit
  /\ UNCHANGED <<returned, role_permissions, inflight>>

RemoveProjectMember ==
  /\ Idle
  /\ \E credentials \in CredentialInputs, project_id \in ProjectIdInputs,
        user_id \in UserIdInputs :
       remove_project_member(credentials, project_id, user_id)
  /\ Commit
  /\ UNCHANGED <<returned, role_permissions, inflight>>

ListProjectMembers ==
  /\ Idle
  /\ \E credentials \in CredentialInputs, project_id \in ProjectIdInputs :
       list_project_members(credentials, project_id)
  /\ Commit
  /\ UNCHANGED <<returned, role_permissions, inflight>>

ListTasks ==
  /\ Idle
  /\ \E credentials \in CredentialInputs,
        project_id \in {NoneId} \cup ProjectIdInputs,
        assignee_id \in {NoneId, 1},
        status \in {"None", "completed"},
        my_tasks \in BOOLEAN,
        skip \in {0}, limit \in LimitInputs :
       list_tasks(credentials, project_id, assignee_id, status, my_tasks,
                  skip, limit)
  /\ Commit
  /\ UNCHANGED <<returned, role_permissions, inflight>>

CreateTask ==
  /\ Idle
  /\ \E credentials \in CredentialInputs,
        project_id \in {NoneId} \cup ProjectIdInputs,
        assignee_id \in UserIdInputs :
       create_task(credentials, project_id, assignee_id)
  /\ Commit
  /\ UNCHANGED <<returned, role_permissions, inflight>>

GetTask ==
  /\ Idle
  /\ \E credentials \in CredentialInputs, task_id \in TaskIdInputs :
       get_task(credentials, task_id)
  /\ Commit
  /\ UNCHANGED <<returned, role_permissions, inflight>>

UpdateTask ==
  /\ Idle
  /\ \E credentials \in CredentialInputs, task_id \in TaskIdInputs,
        status \in TaskStatusInputs :
       update_task(credentials, task_id, status)
  /\ Commit
  /\ UNCHANGED <<returned, role_permissions, inflight>>

AcknowledgeTask ==
  /\ Idle
  /\ \E credentials \in CredentialInputs, task_id \in TaskIdInputs,
        acknowledged \in BOOLEAN :
       acknowledge_task(credentials, task_id, acknowledged)
  /\ Commit
  /\ UNCHANGED <<returned, role_permissions, inflight>>

CompleteTask ==
  /\ Idle
  /\ \E credentials \in CredentialInputs, task_id \in TaskIdInputs :
       complete_task(credentials, task_id)
  /\ Commit
  /\ UNCHANGED <<returned, role_permissions, inflight>>

DeleteTask ==
  /\ Idle
  /\ \E credentials \in CredentialInputs, task_id \in TaskIdInputs :
       delete_task(credentials, task_id)
  /\ Commit
  /\ UNCHANGED <<returned, role_permissions, inflight>>

\* the project and task routes
Next ==
  \/ ListProjects \/ CreateProject \/ GetProject \/ UpdateProject
  \/ DeleteProject \/ AddProjectMember \/ RemoveProjectMember
  \/ ListProjectMembers
  \/ ListTasks \/ CreateTask \/ GetTask \/ UpdateTask \/ AcknowledgeTask
  \/ CompleteTask \/ DeleteTask
  \/ Finish

Spec == Init /\ [][Next]_vars

\* ------------------------------------------------------------------------
\* Calls of the permission and membership functions
\* ------------------------------------------------------------------------

Return(fn, role, user_id, project_id, perms, value) ==
  /\ Idle
  /\ returned' = [fn |-> fn, role |-> role, user_id |-> user_id,
                  project_id |-> project_id, perms |-> perms, value |-> value]
  /\ UNCHANGED <<db, commits, response, role_permissions, inflight>>

GetUserPermissions ==
  /\ Idle
  /\ \E role \in RoleInputs :
       Return("get_user_permissions", role, NoneId, NoneId, <<>>,
              get_user_permissions(role))

HasPermission ==
  /\ Idle
  /\ \E role \in RoleInputs, permission \in Permission :
       Return("has_permission", role, NoneId, NoneId, <<permission>>,
              has_permission(role, permission))

\* check_project_access enrolling the caller it lets through without a
\* membership row (an admin), so that later checks find the row
CheckProjectAccess_Enrolling ==
  /\ Idle
  /\ \E user_id \in UserIdInputs, project_id \in ProjectIdInputs,
        user_role \in RoleInputs :
       LET value == check_project_access(user_id, project_id, user_role, db)
       IN  /\ returned' = [fn |-> "check_project_access", role |-> user_role,
                           user_id |-> user_id, project_id |-> project_id,
                           perms |-> <<>>, value |-> value]
           /\ db' = IF value
                    THEN [db EXCEPT !.project_users =
                            @ \cup {[project_id |-> project_id,
                                     user_id |-> user_id]}]
                    ELSE db
  /\ UNCHANGED <<commits, response, role_permissions, inflight>>

CheckProjectAccess ==
  /\ Idle
  /\ \E user_id \in UserIdInputs, project_id \in ProjectIdInputs,
        user_role \in RoleInputs :
       Return("check_project_access", user_role, user_id, project_id, <<>>,
              check_project_access(user_id, project_id, user_role, db))

GetUserProjectIds ==
  /\ Idle
  /\ \E user_id \in UserIdInputs, user_role \in RoleInputs :
       Return("get_user_project_ids", user_role, user_id, NoneId, <<>>,
              get_user_project_ids(user_id, user_role, db))

VerifyProjectAccess ==
  /\ Idle
  /\ \E user_id \in UserIdInputs, project_id \in ProjectIdInputs,
        user_role \in RoleInputs,
        required_permission \in RequiredPermissionInputs :
       Return("verify_project_access", user_role, user_id, project_id,
              <<required_permission>>,
              verify_project_access(project_id,
                  [sub |-> user_id, role |-> user_role], db,
                  required_permission))

\* the role-permission table and its evaluator
NextPerm == GetUserPermissions \/ HasPermission \/ Finish

SpecPerm == Init /\ [][NextPerm]_vars

\* project membership: the routes that create and change it and the
\* functions and routes that read it
NextAccess ==
  \/ CreateProject \/ AddProjectMember \/ RemoveProjectMember
  \/ ListProjects \/ GetProject
  \/ CheckProjectAccess \/ GetUserProjectIds \/ VerifyProjectAccess
  \/ Finish

SpecAccess == Init /\ [][NextAccess]_vars

ListRfis ==
  /\ Idle
  /\ \E credentials \in CredentialInputs,
        project_id \in {NoneId} \cup ProjectIdInputs,
        status \in {"None", "draft"},
        skip \in SkipInputs, limit \in LimitInputs :
       list_rfis(credentials, project_id, status, skip, limit)
  /\ Commit
  /\ UNCHANGED <<returned, role_permissions, inflight>>

CreateRfi ==
  /\ Idle
  /\ \E credentials \in CredentialInputs, project_id \in ProjectIdInputs :
       create_rfi(credentials, project_id)
  /\ Commit
  /\ UNCHANGED <<returned, role_permissions, inflight>>

GetRfi ==
  /\ Idle
  /\ \E credentials \in CredentialInputs, rfi_id \in RfiIdInputs :
       get_rfi(credentials, rfi_id)
  /\ Commit
  /\ UNCHANGED <<returned, role_permissions, inflight>>

UpdateRfi ==
  /\ Idle
  /\ \E credentials \in CredentialInputs, rfi_id \in RfiIdInputs,
        status \in RfiStatusInputs :
       update_rfi(credentials, rfi_id, status)
  /\ Commit
  /\ UNCHANGED <<returned, role_permissions, inflight>>

CreateDailyReport ==
  /\ Idle
  /\ \E credentials \in CredentialInputs, project_id \in ProjectIdInputs,
        report_date \in {"day1", "day2"} :
       create_daily_report(credentials, project_id, report_date)
  /\ Commit
  /\ UNCHANGED <<returned, role_permissions, inflight>>

GetDailyReport ==
  /\ Idle
  /\ \E credentials \in CredentialInputs, report_id \in ReportIdInputs :
       get_daily_report(credentials, report_id)
  /\ Commit
  /\ UNCHANGED <<returned, role_permissions, inflight>>

UpdateDailyReport ==
  /\ Idle
  /\ \E credentials \in CredentialInputs, report_id \in ReportIdInputs,
        notes \in {"None", "edited"} :
       update_daily_report(credentials, report_id, notes)
  /\ Commit
  /\ UNCHANGED <<returned, role_permissions, inflight>>

DeleteDailyReport ==
  /\ Idle
  /\ \E credentials \in CredentialInputs, report_id \in ReportIdInputs :
       delete_daily_report(credentials, report_id)
  /\ Commit
  /\ UNCHANGED <<returned, role_permissions, inflight>>

\* the entity routes: RFIs and daily reports
NextEntities ==
  \/ ListRfis \/ CreateRfi \/ GetRfi \/ UpdateRfi
  \/ CreateDailyReport \/ GetDailyReport \/ UpdateDailyReport
  \/ DeleteDailyReport
  \/ Finish

SpecEntities == Init /\ [][NextEntities]_vars

\* ------------------------------------------------------------------------
\* Calls of the guards and helpers of core/permissions.py, core/security.py
\* ------------------------------------------------------------------------

\* models.UserRole
UserRole ==
  {"project_manager", "superintendent", "foreman", "project_engineer",
   "accounting", "logistics", "document_controller", "service_dispatcher",
   "admin", "field_worker"}

\* the permissions the lists of a call are made of: one every role holds,
\* some only part of the roles hold, one only admin holds
ListPermissions ==
  {P("task", "view"), P("task", "create"), P("task", "delete"),
   P("admin", "manage_users")}

\* List[Permission] / *permissions: every list of 0..MaxLen of them
PermissionLists == UNION {[1..n -> ListPermissions] : n \in 0..MaxLen}

\* Bearer credentials of every kind, each with every role claim
TokenInputs ==
  {Credential(kind, role, sub) :
     kind \in CredentialKinds, role \in RoleInputs, sub \in SubInputs}

\* edit_permission / edit_own_permission of can_edit_resource
EditPermissionInputs == {P("timecard", "approve"), P("task", "update")}
EditOwnPermissionInputs ==
  {NonePermission, P("timecard", "update_own"), P("task", "complete")}

\* resource_owner_id: the id of a user, or NULL
OwnerIdInputs == {NoneId} \cup UserIdInputs

ReturnOf(call) ==
  /\ Idle
  /\ returned' = call
  /\ UNCHANGED <<db, commits, response, role_permissions, inflight>>

HasAnyPermission ==
  /\ Idle
  /\ \E role \in RoleInputs, permissions \in PermissionLists :
       Return("has_any_permission", role, NoneId, NoneId, permissions,
              has_any_permission(role, permissions))

HasAllPermissions ==
  /\ Idle
  /\ \E role \in RoleInputs, permissions \in PermissionLists :
       Return("has_all_permissions", role, NoneId, NoneId, permissions,
              has_all_permissions(role, permissions))

\* get_permission_summary iterating with `while perms: perm = perms.pop()`
\* over the set get_user_permissions handed out
GetPermissionSummary_Consuming ==
  /\ Idle
  /\ \E role \in RoleInputs :
       /\ returned' = [fn |-> "get_permission_summary", role |-> role,
                       value |-> get_permission_summary(role)]
       /\ role_permissions' =
            IF role \in DOMAIN role_permissions
            THEN [role_permissions EXCEPT ![role] = {}]
            ELSE role_permissions
  /\ UNCHANGED <<db, commits, response, inflight>>

GetPermissionSummary ==
  /\ Idle
  /\ \E role \in RoleInputs :
       ReturnOf([fn |-> "get_permission_summary", role |-> role,
                 value |-> get_permission_summary(role)])

RequirePermission ==
  /\ Idle
  /\ \E credentials \in TokenInputs, permissions \in PermissionLists :
       ReturnOf([fn |-> "require_permission", cred |-> credentials.kind,
                 role |-> credentials.role, sub |-> credentials.sub,
                 perms |-> permissions,
                 value |-> require_permission(permissions, credentials)])

GetCurrentUser ==
  /\ Idle
  /\ \E credentials \in TokenInputs :
       ReturnOf([fn |-> "get_current_user", cred |-> credentials.kind,
                 role |-> credentials.role, sub |-> credentials.sub,
                 value |-> get_current_user(credentials)])

\* *roles of require_roles: no role, one role, two roles
RoleLists == {<<>>, <<"admin">>, <<"admin", "project_manager">>}

RequireRoles ==
  /\ Idle
  /\ \E credentials \in TokenInputs, roles \in RoleLists :
       ReturnOf([fn |-> "require_roles", cred |-> credentials.kind,
                 role |-> credentials.role, sub |-> credentials.sub,
                 roles |-> roles,
                 value |-> require_roles(roles, credentials)])

CanEditResource ==
  /\ Idle
  /\ \E user_id \in UserIdInputs, resource_owner_id \in OwnerIdInputs,
        user_role \in RoleInputs,
        edit_permission \in EditPermissionInputs,
        edit_own_permission \in EditOwnPermissionInputs :
       ReturnOf([fn |-> "can_edit_resource", role |-> user_role,
                 user_id |-> user_id, resource_owner_id |-> resource_owner_id,
                 perms |-> <<edit_permission, edit_own_permission>>,
                 value |-> can_edit_resource(user_id, resource_owner_id,
                               user_role, edit_permission,
                               edit_own_permission)])

CanManageUser ==
  /\ Idle
  /\ \E manager_role \in RoleInputs, target_role \in RoleInputs :
       ReturnOf([fn |-> "can_manage_user", role |-> manager_role,
                 target_role |-> target_role,
                 value |-> can_manage_user(manager_role, target_role)])

\* the evaluator of the table, the guards and the helpers
NextHelpers ==
  \/ GetUserPermissions \/ HasPermission
  \/ HasAnyPermission \/ HasAllPermissions
  \/ RequirePermission \/ GetCurrentUser
  \/ CanEditResource \/ CanManageUser
  \/ Finish

SpecHelpers == Init /\ [][NextHelpers]_vars

\* the permission, role, membership, ownership and hierarchy checks, called
\* while the membership routes change the relation they read
NextDecisions ==
  \/ CreateProject \/ AddProjectMember \/ RemoveProjectMember
  \/ CreateTask
  \/ HasPermission \/ HasAnyPermission \/ HasAllPermissions
  \/ RequirePermission \/ RequireRoles
  \/ CheckProjectAccess \/ GetUserProjectIds \/ VerifyProjectAccess
  \/ CanEditResource \/ CanManageUser
  \/ Finish

SpecDecisions == Init /\ [][NextDecisions]_vars

\* users.role as register stored it: UserRole(data.role), FIELD_WORKER by
\* default
StoredRoleInputs == {"admin", "accounting", "field_worker"}

\* the server with users registered under any of these roles
InitStoredRoles ==
  /\ \E user_role \in [1..MaxUsers -> StoredRoleInputs] :
       db = [users |-> 1..MaxUsers,
             user_role |-> user_role,
             projects |-> EmptyRow,
             project_users |-> {},
             tasks |-> EmptyRow,
             rfis |-> EmptyRow,
             daily_reports |-> EmptyRow]
  /\ commits = 0
  /\ response = NoResponse
  /\ returned = NoReturn
  /\ role_permissions = ROLE_PERMISSIONS
  /\ inflight = [r \in Requests |-> NoRequest]

Login ==
  /\ Idle
  /\ \E user_id \in UserIdInputs, password_ok \in BOOLEAN :
       ReturnOf([fn |-> "login", user_id |-> user_id,
                 value |-> login(user_id, password_ok)])

\* logins, and requests carrying tokens of every role claim whatever the
\* role column of their user says
NextLogin ==
  \/ Login
  \/ GetCurrentUser \/ RequirePermission \/ RequireRoles
  \/ CreateProject \/ GetProject
  \/ Finish

SpecLogin == InitStoredRoles /\ [][NextLogin]_vars

\* everything that reads the role-permission table: the membership routes
\* with their guards, and the functions of the table
NextTable ==
  \/ NextAccess
  \/ GetUserPermissions \/ HasPermission
  \/ HasAnyPermission \/ HasAllPermissions
  \/ GetPermissionSummary \/ RequirePermission

SpecTable == Init /\ [][NextTable]_vars

\* ------------------------------------------------------------------------
\* Handlers suspended at an await
\*
\* Every `await db.execute(...)` / `await db.commit()` of an async handler
\* lets the event loop run other requests. The handlers below are cut
\* where a read the handler decides on is followed by the write it decided:
\* the first step runs the dependencies and the reads, the second resumes
\* with the local variables and commits.
\* ------------------------------------------------------------------------

\* a handler that was suspended still commits when the run has made
\* MaxCommits commits: MaxInterleavedCommits at most
MaxInterleavedCommits == 4

\* await db.commit() of a resumed handler
InterleavedCommit ==
  /\ commits' = IF db' # db THEN commits + 1 ELSE commits
  /\ commits' <= MaxInterleavedCommits

\* the tokens of the interleaved requests: an admin, a role with the full
\* permission surface, a role without project:create, task:create and
\* project:manage_members, and no token
InterleavedCredentialInputs ==
  {Credential("valid", role, sub) :
     role \in {"admin", "project_manager", "accounting"},
     sub \in SubInputs}
    \cup {Credential("missing", "", NoneId)}

\* the slot a new suspended handler takes
FreeSlot(r) ==
  /\ inflight[r] = NoRequest
  /\ \A q \in Requests : q < r => inflight[q] # NoRequest

Suspended(op) == {r \in Requests : inflight[r].op = op}

Suspend(r, request) ==
  /\ inflight' = [inflight EXCEPT ![r] = request]
  /\ UNCHANGED response

Resume(r, status, detail, body) ==
  /\ inflight' = [inflight EXCEPT ![r] = NoRequest]
  /\ response' = Response(inflight[r].call, status, detail, body)

\* an exception no handler catches: Starlette answers 500 and the session
\* is closed without a commit
InternalServerError == Detail("Internal Server Error", <<>>)

\* project_users.insert() on a table without the primary key
project_users_insert_NoPrimaryKey(rows, row) ==
  [ok |-> TRUE, rows |-> rows \cup {row}]

\* project_users.insert() on a table whose primary key is (project_id,
\* user_id): a row that is already there raises IntegrityError
project_users_insert(rows, row) ==
  IF row \in rows THEN [ok |-> FALSE, rows |-> rows]
  ELSE [ok |-> TRUE, rows |-> rows \cup {row}]

\* create_project up to the first commit (lines 58-70): the project row
create_project_commit(r, credentials) ==
  LET perms == <<P("project", "create")>>
      project_id == NextId(db.projects)
      call == Call("create_project", credentials, project_id, perms)
      guard == require_permission(perms, credentials)
  IN  /\ project_id <= MaxProjects
      /\ IF ~guard.ok THEN Abort(call, guard) /\ UNCHANGED inflight
         ELSE /\ db' = [db EXCEPT
                          !.projects = db.projects @@
                              (project_id :> [status |-> "planning"])]
              /\ Suspend(r, [op |-> "create_project", call |-> call,
                             project_id |-> project_id,
                             user_id |-> guard.user.sub])

\* create_project from the insert into project_users on (lines 72-78)
create_project_assign(r) ==
  LET request == inflight[r]
      inserted == project_users_insert(db.project_users,
                      [project_id |-> request.project_id,
                       user_id |-> request.user_id])
  IN  /\ request.op = "create_project"
      /\ IF ~inserted.ok
         THEN /\ Resume(r, 500, InternalServerError, {})
              /\ UNCHANGED db
         ELSE /\ db' = [db EXCEPT !.project_users = inserted.rows]
              /\ Resume(r, 201, Detail("", <<>>), {request.project_id})

\* add_project_member up to the check `if existing.first()` (lines 155-181)
add_project_member_check(r, credentials, project_id, user_id) ==
  LET perms == <<P("project", "manage_members")>>
      call == CallOn("add_project_member", credentials, project_id, user_id,
                    perms)
      guard == require_permission(perms, credentials)
      row == [project_id |-> project_id, user_id |-> user_id]
  IN  IF ~guard.ok THEN Abort(call, guard) /\ UNCHANGED inflight
      ELSE IF project_id \notin DOMAIN db.projects
      THEN Abort(call, NotFound("Project not found")) /\ UNCHANGED inflight
      ELSE IF user_id \notin db.users
      THEN Abort(call, NotFound("User not found")) /\ UNCHANGED inflight
      ELSE IF row \in db.project_users
      THEN /\ Abort(call, Raise(400, "User already assigned to project",
                                <<>>))
           /\ UNCHANGED inflight
      ELSE /\ Suspend(r, [op |-> "add_project_member", call |-> call,
                          project_id |-> project_id, user_id |-> user_id])
           /\ UNCHANGED db

\* add_project_member from the insert on (lines 183-188)
add_project_member_insert(r) ==
  LET request == inflight[r]
      inserted == project_users_insert(db.project_users,
                      [project_id |-> request.project_id,
                       user_id |-> request.user_id])
  IN  /\ request.op = "add_project_member"
      /\ IF ~inserted.ok
         THEN /\ Resume(r, 500, InternalServerError, {})
              /\ UNCHANGED db
         ELSE /\ db' = [db EXCEPT !.project_users = inserted.rows]
              /\ Resume(r, 201, Detail("User added to project", <<>>), {})

\* create_task up to the check of the assignee (lines 65-80)
create_task_verify(r, credentials, project_id, assignee_id) ==
  LET perms == <<P("task", "create")>>
      call == CallOn("create_task", credentials, project_id, assignee_id,
                    perms)
      guard == require_permission(perms, credentials)
  IN  /\ NextId(db.tasks) + Cardinality(Suspended("create_task")) <= MaxTasks
      /\ IF ~guard.ok THEN Abort(call, guard) /\ UNCHANGED inflight
         ELSE LET access == IF project_id # NoneId
                            THEN verify_project_access(project_id, guard.user,
                                     db, P("task", "create"))
                            ELSE guard
              IN  IF ~access.ok
                  THEN Abort(call, access) /\ UNCHANGED inflight
                  ELSE IF assignee_id \notin db.users
                  THEN /\ Abort(call, Raise(400, "Assignee not found", <<>>))
                       /\ UNCHANGED inflight
                  ELSE /\ Suspend(r, [op |-> "create_task", call |-> call,
                                      project_id |-> project_id,
                                      assignee_id |-> assignee_id,
                                      user |-> guard.user])
                       /\ UNCHANGED db

\* create_task resuming with a second verify_project_access, on the
\* membership as it is when the task is written
create_task_insert_VerifyAgain(r) ==
  LET request == inflight[r]
      task_id == NextId(db.tasks)
      access == IF request.project_id # NoneId
                THEN verify_project_access(request.project_id, request.user,
                         db, P("task", "create"))
                ELSE Pass(request.user)
  IN  /\ request.op = "create_task"
      /\ IF ~access.ok
         THEN /\ Resume(r, access.status, access.detail, {})
              /\ UNCHANGED db
         ELSE /\ db' = [db EXCEPT !.tasks = db.tasks @@
                   (task_id :>
                      [project_id |-> request.project_id,
                       assignee_id |-> request.assignee_id,
                       created_by_id |-> request.user.sub,
                       status |-> "pending",
                       acknowledged_at |-> NoneTime,
                       completed_at |-> NoneTime])]
              /\ Resume(r, 201, Detail("", <<>>), {task_id})

\* create_task from Task(...) on (lines 82-96)
create_task_insert(r) ==
  LET request == inflight[r]
      task_id == NextId(db.tasks)
  IN  /\ request.op = "create_task"
      /\ db' = [db EXCEPT !.tasks = db.tasks @@
                  (task_id :>
                     [project_id |-> request.project_id,
                      assignee_id |-> request.assignee_id,
                      created_by_id |-> request.user.sub,
                      status |-> "pending",
                      acknowledged_at |-> NoneTime,
                      completed_at |-> NoneTime])]
      /\ Resume(r, 201, Detail("", <<>>), {task_id})

\* create_rfi up to the count of the project's RFIs (lines 59-68)
create_rfi_count(r, credentials, project_id) ==
  LET call == Call("create_rfi", credentials, project_id, <<>>)
      guard == get_current_user(credentials)
      count == Cardinality({i \in DOMAIN db.rfis :
                              db.rfis[i].project_id = project_id})
  IN  /\ NextId(db.rfis) + Cardinality(Suspended("create_rfi")) <= MaxRfis
      /\ IF ~guard.ok THEN Abort(call, guard) /\ UNCHANGED inflight
         ELSE /\ Suspend(r, [op |-> "create_rfi", call |-> call,
                             project_id |-> project_id, count |-> count,
                             user_id |-> guard.user.sub])
              /\ UNCHANGED db

\* create_rfi from the rfi_number on (lines 69-79)
create_rfi_insert(r) ==
  LET request == inflight[r]
      rfi_id == NextId(db.rfis)
  IN  /\ request.op = "create_rfi"
      /\ db' = [db EXCEPT !.rfis = db.rfis @@
                  (rfi_id :>
                     [project_id |-> request.project_id,
                      rfi_number |-> FormatRfiNumber(request.count + 1),
                      status |-> "draft",
                      routed_date |-> NoneDate,
                      answered_date |-> NoneDate,
                      submitted_by_id |-> request.user_id])]
      /\ Resume(r, 201, Detail("", <<>>), {rfi_id})

CreateProjectCommit ==
  /\ Idle
  /\ \E r \in Requests, credentials \in InterleavedCredentialInputs :
       /\ FreeSlot(r)
       /\ create_project_commit(r, credentials)
  /\ Commit
  /\ UNCHANGED <<returned, role_permissions>>

CreateProjectAssign ==
  /\ Idle
  /\ \E r \in Requests : create_project_assign(r)
  /\ InterleavedCommit
  /\ UNCHANGED <<returned, role_permissions>>

AddProjectMemberCheck ==
  /\ Idle
  /\ \E r \in Requests, credentials \in InterleavedCredentialInputs,
        project_id \in ProjectIdInputs, user_id \in UserIdInputs :
       /\ FreeSlot(r)
       /\ add_project_member_check(r, credentials, project_id, user_id)
  /\ Commit
  /\ UNCHANGED <<returned, role_permissions>>

AddProjectMemberInsert ==
  /\ Idle
  /\ \E r \in Requests : add_project_member_insert(r)
  /\ InterleavedCommit
  /\ UNCHANGED <<returned, role_permissions>>

\* remove_project_member: one DELETE and its commit
RemoveProjectMemberCommit ==
  /\ Idle
  /\ \E credentials \in InterleavedCredentialInputs,
        project_id \in ProjectIdInputs, user_id \in UserIdInputs :
       remove_project_member(credentials, project_id, user_id)
  /\ Commit
  /\ UNCHANGED <<returned, role_permissions, inflight>>

CreateTaskVerify ==
  /\ Idle
  /\ \E r \in Requests, credentials \in InterleavedCredentialInputs,
        project_id \in {NoneId} \cup ProjectIdInputs,
        assignee_id \in UserIdInputs :
       /\ FreeSlot(r)
       /\ create_task_verify(r, credentials, project_id, assignee_id)
  /\ Commit
  /\ UNCHANGED <<returned, role_permissions>>

CreateTaskInsert ==
  /\ Idle
  /\ \E r \in Requests : create_task_insert(r)
  /\ InterleavedCommit
  /\ UNCHANGED <<returned, role_permissions>>

CreateRfiCount ==
  /\ Idle
  /\ \E r \in Requests, credentials \in InterleavedCredentialInputs,
        project_id \in ProjectIdInputs :
       /\ FreeSlot(r)
       /\ create_rfi_count(r, credentials, project_id)
  /\ Commit
  /\ UNCHANGED <<returned, role_permissions>>

CreateRfiInsert ==
  /\ Idle
  /\ \E r \in Requests : create_rfi_insert(r)
  /\ InterleavedCommit
  /\ UNCHANGED <<returned, role_permissions>>

\* the membership routes, interleaved at their awaits
NextMembers ==
  \/ CreateProjectCommit \/ CreateProjectAssign
  \/ AddProjectMemberCheck \/ AddProjectMemberInsert
  \/ RemoveProjectMemberCommit
  \/ Finish

SpecMembers == Init /\ [][NextMembers]_vars

\* create_task interleaved with the membership routes
NextTaskAccess ==
  \/ CreateProjectCommit \/ CreateProjectAssign
  \/ AddProjectMember \/ RemoveProjectMemberCommit
  \/ CreateTaskVerify \/ CreateTaskInsert
  \/ Finish

SpecTaskAccess == Init /\ [][NextTaskAccess]_vars

\* create_rfi requests interleaved with each other
NextRfiNumbers ==
  \/ CreateRfiCount \/ CreateRfiInsert
  \/ Finish

SpecRfiNumbers == Init /\ [][NextRfiNumbers]_vars

\* ------------------------------------------------------------------------
\* Properties
\* ------------------------------------------------------------------------

MembershipRow(project_id, user_id) ==
  [project_id |-> project_id, user_id |-> user_id]

PermissionDeniedBy(required_permission) ==
  Raise(403, "Permission denied:", <<required_permission>>)

ProjectAccessDenied ==
  Raise(403, "You don't have access to this project", <<>>)

\* C1: verify_project_access called with a required_permission the caller's
\* role does not hold returns the 'Permission denied' 403 naming that
\* permission, in every membership state and for every project id: existing
\* or not, caller a member or not.
C1_PermissionCheckFirst ==
  (/\ returned.fn = "verify_project_access"
   /\ returned.perms[1] # NonePermission
   /\ ~has_permission(returned.role, returned.perms[1]))
    => returned.value = PermissionDeniedBy(returned.perms[1])

\* a member of an existing project, lacking the permission, got the
\* permission denial
C1_Witness ==
  /\ returned.fn = "verify_project_access"
  /\ returned.perms[1] # NonePermission
  /\ ~has_permission(returned.role, returned.perms[1])
  /\ returned.project_id \in DOMAIN db.projects
  /\ MembershipRow(returned.project_id, returned.user_id) \in db.project_users
  /\ returned.value = PermissionDeniedBy(returned.perms[1])

ProjectRoutes ==
  {"list_projects", "create_project", "get_project", "update_project",
   "delete_project", "add_project_member", "remove_project_member",
   "list_project_members"}

TaskRoutes ==
  {"list_tasks", "create_task", "get_task", "update_task",
   "acknowledge_task", "complete_task", "delete_task"}

\* the project a call operates on, in the tables d: the existing project a
\* project route names, the project of the existing task a task route
\* names, the project a task is created in; NoneId when there is none
ScopeProject(call, d) ==
  IF call.op \in {"get_project", "update_project", "delete_project",
                  "add_project_member", "remove_project_member",
                  "list_project_members", "create_task"}
  THEN IF call.target \in DOMAIN d.projects THEN call.target ELSE NoneId
  ELSE IF call.op \in {"get_task", "update_task", "acknowledge_task",
                       "complete_task", "delete_task"}
          /\ call.target \in DOMAIN d.tasks
       THEN d.tasks[call.target].project_id
       ELSE NoneId

\* C2: a request of a non-administrator caller on an existing project, or on
\* a task that belongs to a project, for which the caller has no
\* project_users row, is answered with 403.
C2_NonMemberDenied ==
  [][LET call == response'.call
         project_id == ScopeProject(call, db)
     IN  (/\ call.cred = "valid"
          /\ call.role # "admin"
          /\ project_id # NoneId
          /\ MembershipRow(project_id, call.sub) \notin db.project_users)
           => response'.status = 403]_vars

EntityRoutes ==
  {"list_rfis", "create_rfi", "get_rfi", "update_rfi",
   "create_daily_report", "get_daily_report", "update_daily_report",
   "delete_daily_report"}

\* the <resource>:<action> permission of an entity operation
CorrespondingPermission(op) ==
  CASE op = "list_rfis" -> P("rfi", "view")
    [] op = "get_rfi" -> P("rfi", "view")
    [] op = "create_rfi" -> P("rfi", "create")
    [] op = "update_rfi" -> P("rfi", "update")
    [] op = "get_daily_report" -> P("daily_report", "view")
    [] op = "create_daily_report" -> P("daily_report", "create")
    [] op = "update_daily_report" -> P("daily_report", "update")
    [] op = "delete_daily_report" -> P("daily_report", "delete")

\* C3: an entity handler runs to its result only for an authenticated caller
\* whose role holds the permission of the operation.
C3_HandlerOnlyWithPermission ==
  (response.call.op \in EntityRoutes /\ response.status \in {200, 201, 204})
    => /\ response.call.cred = "valid"
       /\ has_permission(response.call.role,
                         CorrespondingPermission(response.call.op))

\* C4: a project or task request that ends with 401 or 403 leaves every
\* table as it was before the request.
C4_DenialChangesNothing ==
  [][(/\ response'.call.op \in ProjectRoutes \cup TaskRoutes
      /\ response'.status \in {401, 403})
       => db' = db]_vars

\* update_task of an existing task was refused by the in-handler check
C4_Witness ==
  /\ response.call.op = "update_task"
  /\ response.status = 403
  /\ response.detail.msg = "You can only edit tasks you created"
  /\ response.call.target \in DOMAIN db.tasks

\* C5: for a non-admin role check_project_access(u, p, role) is true iff the
\* row (p, u) is in project_users; after remove_project_member(p, u) it is
\* false for every non-admin role.
C5_MembershipExactness ==
  [][/\ (returned'.fn = "check_project_access" /\ ~is_admin(returned'.role))
          => returned'.value =
               (MembershipRow(returned'.project_id, returned'.user_id)
                  \in db'.project_users)
     /\ (response'.call.op = "remove_project_member"
         /\ response'.status = 204)
          => \A role \in RoleInputs \ {"admin"} :
               ~check_project_access(response'.call.user_id,
                                     response'.call.target, role, db')]_vars

\* the creator's row was added by create_project and removed again: the
\* check is false for the existing project
C5_Witness ==
  /\ returned.fn = "check_project_access"
  /\ ~is_admin(returned.role)
  /\ returned.project_id \in DOMAIN db.projects
  /\ \A row \in db.project_users : row.project_id # returned.project_id
  /\ returned.value = FALSE

\* C6: check_project_access is true for role admin, for every user id and
\* project id; verify_project_access of a superintendent who passes the
\* permission check and has no row for the project raises the
\* project-access 403.
C6_AdminBypass ==
  /\ (returned.fn = "check_project_access" /\ returned.role = "admin")
       => returned.value = TRUE
  /\ (/\ returned.fn = "verify_project_access"
      /\ returned.role = "superintendent"
      /\ (returned.perms[1] = NonePermission
          \/ has_permission("superintendent", returned.perms[1]))
      /\ MembershipRow(returned.project_id, returned.user_id)
           \notin db.project_users)
       => returned.value = ProjectAccessDenied

\* admin was granted access to a project id that does not exist and has no
\* membership rows
C6_Witness ==
  /\ returned.fn = "check_project_access"
  /\ returned.role = "admin"
  /\ returned.project_id \notin DOMAIN db.projects
  /\ \A row \in db.project_users : row.project_id # returned.project_id
  /\ returned.value = TRUE

MemberProjects(user_id) ==
  {project_id \in ProjectIdInputs :
     MembershipRow(project_id, user_id) \in db.project_users}

\* C7: get_user_project_ids returns every existing project id for admin and
\* exactly the project ids of the caller's project_users rows for any other
\* role; list_projects shows a non-admin only projects it is a member of,
\* and nothing when it has no membership.
C7_ProjectIds ==
  /\ returned.fn = "get_user_project_ids"
       => returned.value = IF returned.role = "admin"
                           THEN DOMAIN db.projects
                           ELSE MemberProjects(returned.user_id)
  /\ (/\ response.call.op = "list_projects"
      /\ response.status = 200
      /\ response.call.role # "admin")
       => /\ response.body \subseteq MemberProjects(response.call.sub)
          /\ MemberProjects(response.call.sub) = {} => response.body = {}

\* a foreman who is a member of one of two existing projects gets that one
C7_Witness ==
  /\ returned.fn = "get_user_project_ids"
  /\ returned.role = "foreman"
  /\ Cardinality(DOMAIN db.projects) = 2
  /\ Cardinality(returned.value) = 1

\* C8 as stated: check_project_access(u, p, role) equals
\* p \in get_user_project_ids(u, role) for every user, project id and role.
C8_ImplementationsAgree ==
  \A user_id \in UserIdInputs, project_id \in ProjectIdInputs,
     role \in RoleInputs :
    check_project_access(user_id, project_id, role, db)
      = (project_id \in get_user_project_ids(user_id, role, db))

\* C8, amended: the two agree for every non-admin role, and for admin on
\* every existing project id; for admin and a project id that does not
\* exist check_project_access is true and the id-set check is false.
C8_AgreeOnExistingProjects ==
  \A user_id \in UserIdInputs, project_id \in ProjectIdInputs,
     role \in RoleInputs :
    IF role = "admin" /\ project_id \notin DOMAIN db.projects
    THEN /\ check_project_access(user_id, project_id, role, db)
         /\ project_id \notin get_user_project_ids(user_id, role, db)
    ELSE check_project_access(user_id, project_id, role, db)
           = (project_id \in get_user_project_ids(user_id, role, db))

\* two projects exist and some user is a member of exactly one of them
C8_Witness ==
  \E user_id \in UserIdInputs :
    \E project_id, other \in DOMAIN db.projects :
      /\ check_project_access(user_id, project_id, "foreman", db)
      /\ project_id \in get_user_project_ids(user_id, "foreman", db)
      /\ ~check_project_access(user_id, other, "foreman", db)
      /\ other \notin get_user_project_ids(user_id, "foreman", db)

\* C9: a project route answers 404 only to a caller who passes the
\* project-scope check for the project id it names.
C9_NotFoundAfterAuthorization ==
  (/\ response.call.op \in {"get_project", "update_project",
                            "delete_project", "add_project_member"}
   /\ response.status = 404
   /\ response.detail.msg = "Project not found")
    => check_project_access(response.call.sub, response.call.target,
                            response.call.role, db)

\* C10: whatever permission has_permission grants to a role, known or not,
\* it grants to admin; the permission set of every role is a subset of
\* admin's.
C10_AdminSuperiority ==
  /\ (returned.fn = "has_permission" /\ returned.value = TRUE)
       => has_permission("admin", returned.perms[1])
  /\ returned.fn = "get_user_permissions"
       => returned.value \subseteq get_user_permissions("admin")

\* a permission held by field_worker was looked up
C10_Witness ==
  /\ returned.fn = "has_permission"
  /\ returned.role = "field_worker"
  /\ returned.value = TRUE

\* C11: every member of Permission is held by at least one role of
\* ROLE_PERMISSIONS, whichever role it was just looked up for, and the
\* union of the roles' permission sets is the whole of Permission.
C11_Completeness ==
  /\ returned.fn = "has_permission"
       => \E role \in DOMAIN role_permissions :
            has_permission(role, returned.perms[1])
  /\ \A permission \in Permission :
       \E role \in DOMAIN role_permissions : has_permission(role, permission)
  /\ UNION {get_user_permissions(role) : role \in DOMAIN role_permissions}
       = Permission

\* an admin-only permission was looked up for project_manager and refused
C11_Witness ==
  /\ returned.fn = "has_permission"
  /\ returned.role = "project_manager"
  /\ returned.perms[1] = P("admin", "manage_users")
  /\ returned.value = FALSE

\* C12: whenever a route, guard or helper takes a step, every member of
\* UserRole is a key of the table with a non-empty permission set, and the
\* step does not change the set get_user_permissions returns for any role.
C12_TableTotalAndFixed ==
  [][/\ \A role \in UserRole :
          /\ role \in DOMAIN role_permissions
          /\ get_user_permissions(role) # {}
     /\ \A role \in RoleInputs :
          get_user_permissions(role)' = get_user_permissions(role)]_vars

\* after a route has changed a table, the summary of field_worker's
\* permissions was computed
C12_Witness ==
  /\ commits > 0
  /\ returned.fn = "get_permission_summary"
  /\ returned.role = "field_worker"
  /\ DOMAIN returned.value # {}

\* C13: for a role that is no key of ROLE_PERMISSIONS, get_user_permissions
\* returns the empty set, has_permission is false for every permission and
\* has_any_permission is false for every permission list.
C13_FailClosedUnknownRole ==
  (returned.fn \in {"get_user_permissions", "has_permission",
                    "has_any_permission"}
     /\ returned.role \notin DOMAIN role_permissions)
    => /\ returned.fn = "get_user_permissions" => returned.value = {}
       /\ returned.fn = "has_permission" => returned.value = FALSE
       /\ returned.fn = "has_any_permission" => returned.value = FALSE
       /\ get_user_permissions(returned.role) = {}
       /\ \A permission \in Permission :
            ~has_permission(returned.role, permission)
       /\ \A permissions \in PermissionLists :
            ~has_any_permission(returned.role, permissions)

\* has_any_permission answered for the role "" (a token without a role
\* claim) and a list of MaxLen permissions every known role holds
C13_Witness ==
  /\ returned.fn = "has_any_permission"
  /\ returned.role = ""
  /\ Len(returned.perms) = MaxLen
  /\ \A i \in 1..Len(returned.perms) : returned.perms[i] = P("task", "view")
  /\ returned.value = FALSE

\* C14 as stated: for a role that is no key of ROLE_PERMISSIONS,
\* has_all_permissions returns false for every permission list, of any
\* length.
C14_HasAllFalseForUnknownRole ==
  (returned.fn = "has_all_permissions"
     /\ returned.role \notin DOMAIN role_permissions)
    => returned.value = FALSE

\* C15: for every role and every non-empty permission list L,
\* has_all_permissions(role, L) implies has_any_permission(role, L), and
\* has_any_permission(role, L) false implies has_all_permissions(role, L)
\* false.
C15_AllImpliesAny ==
  (returned.fn \in {"has_any_permission", "has_all_permissions"}
     /\ Len(returned.perms) > 0)
    => LET any == IF returned.fn = "has_any_permission" THEN returned.value
                  ELSE has_any_permission(returned.role, returned.perms)
           all == IF returned.fn = "has_all_permissions" THEN returned.value
                  ELSE has_all_permissions(returned.role, returned.perms)
       IN  /\ all => any
           /\ ~any => ~all

\* has_all_permissions was true for foreman and a list of two different
\* permissions
C15_Witness ==
  /\ returned.fn = "has_all_permissions"
  /\ returned.role = "foreman"
  /\ Len(returned.perms) = 2
  /\ returned.perms[1] # returned.perms[2]
  /\ returned.value = TRUE

\* C16: for an authenticated caller the guard of require_permission(p1..pn)
\* raises the 403 "Permission denied" iff has_any_permission(role, p1..pn)
\* is false and otherwise returns the caller's identity unchanged (for a
\* caller get_current_user rejects the guard is not entered: 401);
\* accounting holds task:view but not task:create, field_worker holds
\* task:view but not task:delete.
C16_GuardIffHasAny ==
  /\ (returned.fn = "require_permission" /\ returned.cred = "valid")
       => IF has_any_permission(returned.role, returned.perms)
          THEN returned.value
                 = Pass([sub |-> returned.sub, role |-> returned.role])
          ELSE returned.value
                 = Raise(403, "Permission denied. Required:", returned.perms)
  /\ (returned.fn = "require_permission" /\ returned.cred # "valid")
       => returned.value.status = 401
  /\ has_permission("accounting", P("task", "view"))
  /\ ~has_any_permission("accounting", <<P("task", "create")>>)
  /\ has_permission("field_worker", P("task", "view"))
  /\ ~has_permission("field_worker", P("task", "delete"))

\* accounting was denied by require_permission(task:create)
C16_Witness ==
  /\ returned.fn = "require_permission"
  /\ returned.cred = "valid"
  /\ returned.role = "accounting"
  /\ returned.perms = <<P("task", "create")>>
  /\ returned.value.status = 403

\* C17: get_current_user returns the decoded payload for a valid token and
\* the one 401 "Could not validate credentials" for a missing credential,
\* a malformed or unverifiable token, an expired token and a token without
\* "sub"; whether it succeeds is the same for every role claim, whatever
\* permissions the role has.
C17_OneUnauthenticated ==
  returned.fn = "get_current_user"
    => /\ returned.cred = "valid"
            => returned.value
                 = Pass([sub |-> returned.sub, role |-> returned.role])
       /\ returned.cred # "valid" => returned.value = credentials_exception
       /\ \A role \in RoleInputs :
            LET other == get_current_user(
                           Credential(returned.cred, role, returned.sub))
            IN  /\ other.ok = returned.value.ok
                /\ other.status = returned.value.status
                /\ other.detail = returned.value.detail

\* an expired token with the role claim admin was refused
C17_Witness ==
  /\ returned.fn = "get_current_user"
  /\ returned.cred = "expired"
  /\ returned.role = "admin"
  /\ returned.value.status = 401

\* C18: can_edit_resource is true iff the role holds edit_permission, or
\* edit_own_permission is supplied, the user is the owner and the role
\* holds edit_own_permission; it always returns a boolean.
C18_CanEditResource ==
  returned.fn = "can_edit_resource"
    => LET edit == returned.perms[1]
           edit_own == returned.perms[2]
       IN  /\ returned.value \in BOOLEAN
           /\ returned.value
                = (\/ has_permission(returned.role, edit)
                   \/ /\ edit_own # NonePermission
                      /\ returned.user_id = returned.resource_owner_id
                      /\ has_permission(returned.role, edit_own))
           /\ (returned.user_id = returned.resource_owner_id
                 /\ edit_own # NonePermission
                 /\ has_permission(returned.role, edit_own))
                => returned.value = TRUE
           /\ (~has_permission(returned.role, edit)
                 /\ (edit_own = NonePermission
                       \/ ~has_permission(returned.role, edit_own)))
                => returned.value = FALSE
           /\ (returned.user_id # returned.resource_owner_id
                 /\ ~has_permission(returned.role, edit))
                => returned.value = FALSE

\* the owner may edit through edit_own_permission although the role lacks
\* edit_permission
C18_Witness ==
  /\ returned.fn = "can_edit_resource"
  /\ returned.user_id = returned.resource_owner_id
  /\ ~has_permission(returned.role, returned.perms[1])
  /\ returned.perms[2] # NonePermission
  /\ returned.value = TRUE

\* C19: can_manage_user(m, t) is true iff the rank of m in ROLE_HIERARCHY
\* (0 for a role that is no key) is greater than the rank of t; it is
\* false for m = t and in both directions for two roles of equal rank,
\* whatever permissions they hold.
C19_HierarchyStrict ==
  returned.fn = "can_manage_user"
    => /\ returned.value
            = (RoleLevel(returned.role) > RoleLevel(returned.target_role))
       /\ returned.role = returned.target_role => returned.value = FALSE
       /\ RoleLevel(returned.role) = RoleLevel(returned.target_role)
            => /\ returned.value = FALSE
               /\ ~can_manage_user(returned.target_role, returned.role)

\* admin was asked about admin
C19_Witness ==
  /\ returned.fn = "can_manage_user"
  /\ returned.role = "admin"
  /\ returned.target_role = "admin"
  /\ returned.value = FALSE

\* C20 as stated: for two distinct roles of ROLE_HIERARCHY exactly one of
\* can_manage_user(a, b) and can_manage_user(b, a) is true, and the
\* relation is transitive.
C20_TotalOrder ==
  returned.fn = "can_manage_user"
    => /\ (returned.role \in DOMAIN ROLE_HIERARCHY
            /\ returned.target_role \in DOMAIN ROLE_HIERARCHY
            /\ returned.role # returned.target_role)
           => returned.value
                # can_manage_user(returned.target_role, returned.role)
       /\ \A a \in DOMAIN ROLE_HIERARCHY, b \in DOMAIN ROLE_HIERARCHY :
            a # b => (can_manage_user(a, b) # can_manage_user(b, a))
       /\ \A a \in DOMAIN ROLE_HIERARCHY, b \in DOMAIN ROLE_HIERARCHY,
             c \in DOMAIN ROLE_HIERARCHY :
            (can_manage_user(a, b) /\ can_manage_user(b, c))
              => can_manage_user(a, c)

\* C20, amended: for two distinct roles of ROLE_HIERARCHY at most one of
\* can_manage_user(a, b) and can_manage_user(b, a) is true; neither is
\* exactly when the two have the same rank, which is the case within
\* {foreman, project_engineer} and within {logistics, document_controller,
\* service_dispatcher} and for no other pair; the relation is transitive.
C20_TotalPreorder ==
  LET Peers == {{"foreman", "project_engineer"},
                {"logistics", "document_controller", "service_dispatcher"}}
  IN  returned.fn = "can_manage_user"
        => /\ (returned.role \in DOMAIN ROLE_HIERARCHY
                /\ returned.target_role \in DOMAIN ROLE_HIERARCHY
                /\ returned.value = TRUE)
               => ~can_manage_user(returned.target_role, returned.role)
           /\ \A a \in DOMAIN ROLE_HIERARCHY, b \in DOMAIN ROLE_HIERARCHY :
                a # b
                  => /\ ~(can_manage_user(a, b) /\ can_manage_user(b, a))
                     /\ (~can_manage_user(a, b) /\ ~can_manage_user(b, a))
                          <=> (\E peers \in Peers : {a, b} \subseteq peers)
           /\ \A a \in DOMAIN ROLE_HIERARCHY, b \in DOMAIN ROLE_HIERARCHY,
                 c \in DOMAIN ROLE_HIERARCHY :
                (can_manage_user(a, b) /\ can_manage_user(b, c))
                  => can_manage_user(a, c)

\* foreman was asked about project_engineer, of the same rank
C20_Witness ==
  /\ returned.fn = "can_manage_user"
  /\ returned.role = "foreman"
  /\ returned.target_role = "project_engineer"
  /\ returned.value = FALSE

\* ------------------------------------------------------------------------
\* C21..C30
\* ------------------------------------------------------------------------

\* C21: when create_project answers 201 to user u for the new project p,
\* the membership row (p, u) is in project_users, so that
\* check_project_access(u, p, role) is true right afterwards for every
\* role, admin or not.
C21_CreatorIsMember ==
  (response # NoResponse /\ response.call.op = "create_project"
     /\ response.status = 201)
    => \A p \in response.body :
         /\ p \in DOMAIN db.projects
         /\ MembershipRow(p, response.call.sub) \in db.project_users
         /\ \A role \in RoleInputs :
              check_project_access(response.call.sub, p, role, db)

\* a project_manager created a project
C21_Witness ==
  /\ response # NoResponse
  /\ response.call.op = "create_project"
  /\ response.status = 201
  /\ response.call.role = "project_manager"
  /\ response.body # {}

\* C27: delete_project is admin-only: it answers 204, having set the
\* project's status to closed, only to a caller whose token role is admin.
C27_DeleteProjectAdminOnly ==
  (response # NoResponse /\ response.call.op = "delete_project"
     /\ response.status = 204)
    => response.call.role = "admin"

\* C30: every task whose status is completed has completed_at set, and
\* every task with completed_at set has the status completed.
C30_CompletedIffStamped ==
  \A task_id \in DOMAIN db.tasks :
    (db.tasks[task_id].status = "completed")
      <=> (db.tasks[task_id].completed_at # NoneTime)

DecisionFns ==
  {"has_permission", "has_any_permission", "has_all_permissions",
   "require_permission", "require_roles", "check_project_access",
   "get_user_project_ids", "verify_project_access", "can_edit_resource",
   "can_manage_user"}

\* the check `returned` records, evaluated on the current state
Decision ==
  CASE returned.fn = "has_permission" ->
         has_permission(returned.role, returned.perms[1])
    [] returned.fn = "has_any_permission" ->
         has_any_permission(returned.role, returned.perms)
    [] returned.fn = "has_all_permissions" ->
         has_all_permissions(returned.role, returned.perms)
    [] returned.fn = "require_permission" ->
         require_permission(returned.perms,
             Credential(returned.cred, returned.role, returned.sub))
    [] returned.fn = "require_roles" ->
         require_roles(returned.roles,
             Credential(returned.cred, returned.role, returned.sub))
    [] returned.fn = "check_project_access" ->
         check_project_access(returned.user_id, returned.project_id,
                              returned.role, db)
    [] returned.fn = "get_user_project_ids" ->
         get_user_project_ids(returned.user_id, returned.role, db)
    [] returned.fn = "verify_project_access" ->
         verify_project_access(returned.project_id,
             [sub |-> returned.user_id, role |-> returned.role], db,
             returned.perms[1])
    [] returned.fn = "can_edit_resource" ->
         can_edit_resource(returned.user_id, returned.resource_owner_id,
                           returned.role, returned.perms[1],
                           returned.perms[2])
    [] returned.fn = "can_manage_user" ->
         can_manage_user(returned.role, returned.target_role)

\* C24: a step that evaluates has_permission, has_any_permission,
\* has_all_permissions, require_permission, require_roles,
\* check_project_access, get_user_project_ids, verify_project_access,
\* can_edit_resource or can_manage_user leaves the tables (membership
\* relation, projects, tasks and the rest), the role-permission table and
\* the pending response unchanged, and the same check evaluated again on
\* the state it leaves gives the result it returned.
C24_DecisionsReadOnly ==
  [][(returned'.fn \in DecisionFns)
       => /\ db' = db
          /\ role_permissions' = role_permissions
          /\ response' = response
          /\ returned'.value = Decision']_vars

\* verify_project_access let a member through while the membership
\* relation and the tasks held rows
C24_Witness ==
  /\ returned.fn = "verify_project_access"
  /\ returned.role = "project_manager"
  /\ returned.value.ok
  /\ db.project_users # {}
  /\ DOMAIN db.tasks # {}

\* C25: an authorization outcome is decided by the role claim of the token
\* and not by the role column of the token's user: get_current_user hands
\* on the claim, require_permission passes exactly when the claimed role
\* holds one of the permissions, require_roles exactly when the claimed
\* role is listed, create_project answers 201 exactly when the claimed role
\* holds project:create, get_project lets the claimed admin through without
\* a membership row; and the token login issues carries the role column as
\* it is at that login.
C25_TokenRoleDecides ==
  /\ (returned.fn \in {"get_current_user", "require_permission",
                       "require_roles"}
        /\ returned.value.ok)
       => returned.value.user.role = returned.role
  /\ (returned.fn = "require_permission" /\ returned.cred = "valid")
       => (returned.value.ok
             <=> \E i \in DOMAIN returned.perms :
                   returned.perms[i] \in get_user_permissions(returned.role))
  /\ (returned.fn = "require_roles" /\ returned.cred = "valid")
       => (returned.value.ok
             <=> \E i \in DOMAIN returned.roles :
                   returned.roles[i] = returned.role)
  /\ (response # NoResponse /\ response.call.op = "create_project"
        /\ response.call.cred = "valid")
       => (response.status = 201
             <=> P("project", "create")
                   \in get_user_permissions(response.call.role))
  /\ (response # NoResponse /\ response.call.op = "get_project"
        /\ response.call.cred = "valid"
        /\ response.call.role = "admin"
        /\ response.call.target \in DOMAIN db.projects)
       => response.status = 200
  /\ (returned.fn = "login" /\ returned.value.ok)
       => returned.value.access_token
            = Credential("valid", db.user_role[returned.user_id],
                         returned.user_id)

\* a token claiming admin, of a user whose row says field_worker, passed a
\* guard only admin passes
C25_Witness ==
  /\ returned.fn = "require_permission"
  /\ returned.cred = "valid"
  /\ returned.role = "admin"
  /\ db.user_role[returned.sub] = "field_worker"
  /\ returned.perms = <<P("admin", "manage_users")>>
  /\ returned.value.ok

\* C28: creating a project and adding its creator's membership row are one
\* atomic step: in no state, the states between the steps of create_project
\* included, does the new project exist without the row of its creator.
C28_CreationAtomic ==
  \A r \in Requests :
    inflight[r].op = "create_project"
      => (inflight[r].project_id \in DOMAIN db.projects
            => MembershipRow(inflight[r].project_id, inflight[r].user_id)
                 \in db.project_users)

\* C29: within a project no two RFIs carry the same rfi_number, whatever
\* the interleaving of the create_rfi requests that made them.
C29_RfiNumbersUnique ==
  \A a \in DOMAIN db.rfis, b \in DOMAIN db.rfis :
    (a # b /\ db.rfis[a].project_id = db.rfis[b].project_id)
      => db.rfis[a].rfi_number # db.rfis[b].rfi_number

\* the step answers an add_project_member request
AnswersAddProjectMember ==
  response' # NoResponse /\ response'.call.op = "add_project_member"

C26_DecidedAtCheck ==
  [][\A r \in Requests :
       /\ (inflight[r] = NoRequest /\ inflight'[r].op = "create_task"
             /\ inflight'[r].project_id # NoneId)
            => /\ check_project_access(inflight'[r].user.sub,
                     inflight'[r].project_id, inflight'[r].user.role, db)
               /\ db' = db
       /\ (inflight[r].op = "create_task" /\ inflight'[r] = NoRequest)
            => /\ response'.status = 201
               /\ response'.call = inflight[r].call
               /\ \E task_id \in DOMAIN db'.tasks \ DOMAIN db.tasks :
                    /\ db'.tasks[task_id].project_id = inflight[r].project_id
                    /\ db'.tasks[task_id].created_by_id = inflight[r].user.sub
       /\ (response' # NoResponse /\ response'.call.op = "create_task"
             /\ response'.status = 403)
            => /\ db' = db
               /\ inflight' = inflight
               /\ (response'.detail.msg
                     = "You don't have access to this project")
                    <=> (/\ has_permission(response'.call.role,
                                           P("task", "create"))
                         /\ response'.call.target # NoneId
                         /\ ~check_project_access(response'.call.sub,
                               response'.call.target, response'.call.role,
                               db))]_vars

\* a project_manager's task for a project was written and answered 201
\* after the row that let the request through had been removed
C26_Witness ==
  /\ response # NoResponse
  /\ response.call.op = "create_task"
  /\ response.status = 201
  /\ response.call.role = "project_manager"
  /\ response.call.target \in DOMAIN db.projects
  /\ MembershipRow(response.call.target, response.call.sub)
       \notin db.project_users

====
